---- MODULE Spec2Model ----
(***************************************************************************)
(* State-machine model of MemorySystem (src/src/core/memory.py): the      *)
(* in-memory index, the per-session conversation lists, the memories.jsonl *)
(* log and the vector collections, with one action per public coroutine.  *)
(* A coroutine is one atomic step except where it really suspends: the    *)
(* run_in_executor await inside _generate_embedding.                      *)
(***************************************************************************)
EXTENDS Integers, Sequences, FiniteSets, TLC

(* ------------------------------ bounds -------------------------------- *)
\* number of uuids the model can hand out
MaxIds == 2
\* last value of the clock
MaxTime == 2
\* number of calls suspended at the embedder at the same time
MaxPending == 2
\* access_count cap (guards the history read)
MaxAccess == 1
\* number of lines memories.jsonl may grow to through importance updates
MaxLog == 3

(* --------------------------- basic values ----------------------------- *)
Ids == 1..MaxIds
Times == 0..MaxTime

\* class MemoryType(Enum)
MemoryType == {"conversation", "factual", "procedural", "episodic", "system"}

\* list(MemoryType): the enum's definition order
MemoryTypeList == <<"conversation", "factual", "procedural", "episodic", "system">>

\* Python None for a session id / an absent metadata key; "" is falsy too
NoSession == ""

\* Python None for an embedding
NoEmbedding == 0

\* truthiness of an Optional[str]
Truthy(s) == s # NoSession

(* Scores are rationals <<numerator, denominator>>, denominator > 0.      *)
Rat(n, d) == <<n, d>>
RatGE(a, b) == a[1] * b[2] >= b[1] * a[2]
RatGT(a, b) == a[1] * b[2] > b[1] * a[2]
RatEQ(a, b) == a[1] * b[2] = b[1] * a[2]
RatOne == <<1, 1>>
RatZero == <<0, 1>>

Min2(a, b) == IF a <= b THEN a ELSE b
Max2(a, b) == IF a >= b THEN a ELSE b

(* --------------------------- text helpers ----------------------------- *)
\* str.lower() on one character of the model's alphabet
LowerChar(ch) == IF ch = "A" THEN "a" ELSE IF ch = "B" THEN "b" ELSE ch

\* str.lower()
Lower(text) == [i \in 1..Len(text) |-> LowerChar(text[i])]

\* `needle in hay` for Python strings
Contains(hay, needle) ==
    \E i \in 1..(Len(hay) + 1) :
        /\ i + Len(needle) - 1 <= Len(hay)
        /\ SubSeq(hay, i, i + Len(needle) - 1) = needle

\* `not text.strip()`: the text is empty or all whitespace
IsBlank(text) == \A i \in 1..Len(text) : text[i] = " "

(* --------------------------- list helpers ----------------------------- *)
\* Python s[:n], n any integer
SliceTo(s, n) ==
    IF n >= 0 THEN SubSeq(s, 1, Min2(n, Len(s)))
    ELSE SubSeq(s, 1, Max2(Len(s) + n, 0))

\* Python s[k:], k any integer
SliceFrom(s, k) ==
    IF k >= 0 THEN SubSeq(s, Min2(k, Len(s)) + 1, Len(s))
    ELSE SubSeq(s, Max2(Len(s) + k, 0) + 1, Len(s))

SeqRange(s) == {s[i] : i \in 1..Len(s)}

(* ----------------------------- state ---------------------------------- *)
VARIABLES
    memory_index,          \* Dict[str, Memory], in insertion order: Seq of Memory
    conversation_sessions, \* Dict[str, List[Memory]]: session id -> Seq of entries
    log,                   \* data/memory/memories.jsonl: Seq of lines
    collections,           \* chroma collections: memory type -> Seq of entries
    embedding_model,       \* self.embedding_model is not None
    vector_db,             \* self.vector_db is not None
    now,                   \* datetime.now()
    pending,               \* calls suspended in run_in_executor
    issued,                \* every uuid uuid4() has returned so far
    deleted,               \* ids for which delete_memory returned True
    returned,              \* the store() calls that returned, in order: id and
                           \* the session list the memory was appended to
    last_read,             \* for every indexed memory get_conversation_history
                           \* has returned: the time of the last such return
    ret                    \* the call that returned in the last step, with its result

vars == <<memory_index, conversation_sessions, log, collections, embedding_model,
          vector_db, now, pending, issued, deleted, returned, last_read, ret>>


\* ret when the last step returned from no call (a call suspended, time passed)
NoReturn == [op |-> "none"]

(* ----------------------------- records -------------------------------- *)
\* mutant: the importance passed in is dropped for the default 0.5
MakeMemoryDefaultImportance(id, type, content, metadata, timestamp, importance, access_count, last_accessed, embedding) ==
    [id |-> id, type |-> type, content |-> content, metadata |-> metadata,
     timestamp |-> timestamp, importance |-> 5,
     access_count |-> access_count, last_accessed |-> last_accessed,
     embedding |-> embedding]

\* @dataclass Memory
MakeMemory(id, type, content, metadata, timestamp, importance, access_count, last_accessed, embedding) ==
    [id |-> id, type |-> type, content |-> content, metadata |-> metadata,
     timestamp |-> timestamp, importance |-> importance,
     access_count |-> access_count, last_accessed |-> last_accessed,
     embedding |-> embedding]

\* a metadata dict: the keys the engine reads ("" = key absent)
MakeMetadata(session_id, speaker) == [session_id |-> session_id, speaker |-> speaker]

\* memory.metadata.get("session_id")
MetaSession(memory) == memory.metadata.session_id

\* placeholder carried by a session entry that aliases the indexed object
NoMem == MakeMemory(0, "system", <<>>, MakeMetadata(NoSession, ""), 0, 0, 0, 0, NoEmbedding)

(* A session list holds references to Memory objects.  An entry either    *)
(* aliases the object memory_index holds under the same id (own = FALSE)  *)
(* or is an object of its own that only the list reaches (own = TRUE:     *)
(* _load_memories builds one object per log line).                        *)
AliasEntry(id) == [id |-> id, own |-> FALSE, mem |-> NoMem]
OwnEntry(memory) == [id |-> memory.id, own |-> TRUE, mem |-> memory]

\* `memory_id in self.memory_index`
InIndex(index, id) == \E i \in 1..Len(index) : index[i].id = id

IndexIds(index) == {index[i].id : i \in 1..Len(index)}

\* self.memory_index[memory_id]
Lookup(index, id) == index[CHOOSE i \in 1..Len(index) : index[i].id = id]

\* self.memory_index[memory.id] = memory (a dict keeps the key's first position)
IndexPut(index, memory) ==
    IF InIndex(index, memory.id)
    THEN [i \in 1..Len(index) |-> IF index[i].id = memory.id THEN memory ELSE index[i]]
    ELSE Append(index, memory)

\* del self.memory_index[memory_id]
IndexDel(index, id) == SelectSeq(index, LAMBDA m : m.id # id)

\* the Memory object a session entry refers to
EntryMemory(index, e) == IF e.own THEN e.mem ELSE Lookup(index, e.id)

(* ------------------------------ the log ------------------------------- *)
\* mutant: the content is written lower-cased
SerializeMemoryLowered(memory) ==
    [kind |-> "json", id |-> memory.id, type |-> memory.type,
     content |-> Lower(memory.content), metadata |-> memory.metadata,
     timestamp |-> memory.timestamp, importance |-> memory.importance,
     access_count |-> memory.access_count, last_accessed |-> memory.last_accessed,
     embedding |-> memory.embedding]

\* _serialize_memory + json.dumps: one line of memories.jsonl
SerializeMemory(memory) ==
    [kind |-> "json", id |-> memory.id, type |-> memory.type,
     content |-> memory.content, metadata |-> memory.metadata,
     timestamp |-> memory.timestamp, importance |-> memory.importance,
     access_count |-> memory.access_count, last_accessed |-> memory.last_accessed,
     embedding |-> memory.embedding]

\* json.loads + _deserialize_memory of a well-formed line
DeserializeMemory(line) ==
    MakeMemory(line.id, line.type, line.content, line.metadata, line.timestamp,
               line.importance, line.access_count, line.last_accessed, line.embedding)

\* _persist_memory: append one line (written = FALSE: open or write raised,
\* the error was logged and the file is as it was)
PersistMemory(lines, memory, written) ==
    IF written THEN Append(lines, SerializeMemory(memory)) ELSE lines

(* -------------------------- the embedder ------------------------------ *)
\* embedding_model.encode(text).tolist(): a deterministic vector per text
Encode(text) == Len(text)

\* _generate_embedding returns None without suspending
EmbeddingSkipped(text) == ~embedding_model \/ IsBlank(text)

(* ------------------------ the vector database ------------------------- *)
CollectionExists(cols, type) == type \in DOMAIN cols

\* mutant: a memory without an embedding is added to its collection too
StoreInVectorDbUnchecked(cols, memory, added) ==
    IF ~vector_db THEN cols
    ELSE LET old == IF CollectionExists(cols, memory.type) THEN cols[memory.type] ELSE <<>>
             entry == [id |-> memory.id, embedding |-> memory.embedding,
                       session_id |-> MetaSession(memory)]
         IN [t \in DOMAIN cols \cup {memory.type} |->
                IF t = memory.type THEN Append(old, entry) ELSE cols[t]]

\* _store_in_vector_db: get_or_create_collection, then collection.add
\* (added = FALSE: collection.add raised and the error was logged)
StoreInVectorDb(cols, memory, added) ==
    IF ~vector_db \/ memory.embedding = NoEmbedding THEN cols
    ELSE LET old == IF CollectionExists(cols, memory.type) THEN cols[memory.type] ELSE <<>>
             entry == [id |-> memory.id, embedding |-> memory.embedding,
                       session_id |-> MetaSession(memory)]
         IN [t \in DOMAIN cols \cup {memory.type} |->
                IF t = memory.type
                THEN (IF added THEN Append(old, entry) ELSE old)
                ELSE cols[t]]

(* ------------------------------- store -------------------------------- *)
\* mutant: the id is the first one the index does not hold
FirstFreeId == IF Ids \ IndexIds(memory_index) = {} THEN {}
               ELSE {CHOOSE i \in Ids \ IndexIds(memory_index) :
                        \A j \in Ids \ IndexIds(memory_index) : i <= j}

\* uuid.uuid4(): a value never handed out before (the least such, by symmetry)
Uuid4 == IF Ids \ issued = {} THEN {}
         ELSE {CHOOSE i \in Ids \ issued : \A j \in Ids \ issued : i <= j}

\* mutant: the new memory goes to the front of the list
SessionPrepend(sessions, session_id, entry) ==
    [s \in DOMAIN sessions \cup {session_id} |->
        IF s = session_id
        THEN <<entry>> \o (IF s \in DOMAIN sessions THEN sessions[s] ELSE <<>>)
        ELSE sessions[s]]

\* self.conversation_sessions[session_id].append(memory), creating the list
SessionAppend(sessions, session_id, entry) ==
    [s \in DOMAIN sessions \cup {session_id} |->
        IF s = session_id
        THEN Append(IF s \in DOMAIN sessions THEN sessions[s] ELSE <<>>, entry)
        ELSE sessions[s]]

\* store(), lines 116-150: everything after the embedding is known
StoreComplete(memory_id, content, memory_type, metadata, importance, session_id, embedding, added, written) ==
    LET memory == MakeMemory(memory_id, memory_type, content, metadata, now,
                             importance, 0, now, embedding)
    IN /\ memory_index' = IndexPut(memory_index, memory)
       /\ collections' = StoreInVectorDb(collections, memory, added)
       /\ conversation_sessions' =
             IF Truthy(session_id) /\ memory_type = "conversation"
             THEN SessionAppend(conversation_sessions, session_id, AliasEntry(memory_id))
             ELSE conversation_sessions
       /\ log' = PersistMemory(log, memory, written)
       /\ returned' = Append(returned,
             [id |-> memory_id,
              session_id |-> IF Truthy(session_id) /\ memory_type = "conversation"
                             THEN session_id ELSE NoSession])
       /\ ret' = [op |-> "store", id |-> memory_id, content |-> content,
                  type |-> memory_type, importance |-> importance,
                  session_id |-> session_id]

\* mutant: the record is inserted into the index before the embedder is
\* awaited, and the embedding is attached on return
StoreInsertsFirst(content, memory_type, metadata, importance, session_id, added, written) ==
    \E memory_id \in Uuid4 :
        /\ issued' = issued \cup {memory_id}
        /\ IF EmbeddingSkipped(content)
           THEN /\ StoreComplete(memory_id, content, memory_type, metadata,
                                 importance, session_id, NoEmbedding, added, written)
                /\ UNCHANGED pending
           ELSE /\ Cardinality(pending) < MaxPending
                /\ pending' = pending \cup
                      {[op |-> "store", id |-> memory_id, content |-> content,
                        type |-> memory_type, metadata |-> metadata,
                        importance |-> importance, session_id |-> session_id]}
                /\ memory_index' =
                      IndexPut(memory_index,
                               MakeMemory(memory_id, memory_type, content, metadata, now,
                                          importance, 0, now, NoEmbedding))
                /\ ret' = NoReturn
                /\ UNCHANGED <<conversation_sessions, log, collections, returned>>
        /\ UNCHANGED <<embedding_model, vector_db, last_read, now, deleted>>


\* store(), lines 110-114: draw the id, then either suspend in the embedder
\* or (no model, blank text) go on at once without an embedding
Store(content, memory_type, metadata, importance, session_id, added, written) ==
    \E memory_id \in Uuid4 :
        /\ issued' = issued \cup {memory_id}
        /\ IF EmbeddingSkipped(content)
           THEN /\ StoreComplete(memory_id, content, memory_type, metadata,
                                 importance, session_id, NoEmbedding, added, written)
                /\ UNCHANGED pending
           ELSE /\ Cardinality(pending) < MaxPending
                /\ pending' = pending \cup
                      {[op |-> "store", id |-> memory_id, content |-> content,
                        type |-> memory_type, metadata |-> metadata,
                        importance |-> importance, session_id |-> session_id]}
                /\ ret' = NoReturn
                /\ UNCHANGED <<memory_index, conversation_sessions, log, collections,
                               returned>>
        /\ UNCHANGED <<embedding_model, vector_db, last_read, now, deleted>>

\* store() resumes from run_in_executor: the model answered (embedded) or
\* raised, which _generate_embedding turns into None
StoreResume(call, embedded, added, written) ==
    /\ call \in pending
    /\ call.op = "store"
    /\ pending' = pending \ {call}
    /\ StoreComplete(call.id, call.content, call.type, call.metadata, call.importance,
                     call.session_id,
                     IF embedded THEN Encode(call.content) ELSE NoEmbedding, added,
                     written)
    /\ UNCHANGED <<embedding_model, vector_db, last_read, now, issued, deleted>>

(* ----------------------- conversation history ------------------------ *)
\* the entries get_conversation_history reads: sessions[session_id][-limit:]
HistorySlice(sessions, session_id, limit) ==
    IF session_id \notin DOMAIN sessions THEN <<>>
    ELSE SliceFrom(sessions[session_id], 0 - limit)

\* mutant: a read-through counts the access but leaves last_accessed alone
TouchKeepsTime(memory) ==
    [memory EXCEPT !.access_count = @ + 1]


\* memory.access_count += 1; memory.last_accessed = datetime.now()
Touch(memory) ==
    [memory EXCEPT !.access_count = @ + 1, !.last_accessed = now]

\* get_conversation_history(session_id, limit)
GetConversationHistory(session_id, limit) ==
    LET memories == HistorySlice(conversation_sessions, session_id, limit)
        first == IF session_id \in DOMAIN conversation_sessions
                 THEN Len(conversation_sessions[session_id]) - Len(memories)
                 ELSE 0
        aliased == {memories[i].id : i \in {j \in 1..Len(memories) : ~memories[j].own}}
    IN /\ \A i \in 1..Len(memories) :
             EntryMemory(memory_index, memories[i]).access_count < MaxAccess
       /\ memory_index' =
             [i \in 1..Len(memory_index) |->
                 IF memory_index[i].id \in aliased
                 THEN Touch(memory_index[i]) ELSE memory_index[i]]
       /\ conversation_sessions' =
             [s \in DOMAIN conversation_sessions |->
                 IF s # session_id THEN conversation_sessions[s]
                 ELSE [i \in 1..Len(conversation_sessions[s]) |->
                          LET e == conversation_sessions[s][i]
                          IN IF i > first /\ e.own
                             THEN [e EXCEPT !.mem = Touch(e.mem)] ELSE e]]
       /\ ret' = [op |-> "history", session_id |-> session_id, limit |-> limit,
                  result |-> [i \in 1..Len(memories) |-> memories[i].id]]
       /\ last_read' =
             LET read == {memories[i].id : i \in 1..Len(memories)}
             IN [id \in DOMAIN last_read \cup read |->
                    IF id \in read THEN now ELSE last_read[id]]
       /\ UNCHANGED <<log, collections, embedding_model, vector_db, now, pending,
                      issued, deleted, returned>>

(* ------------------------- importance update -------------------------- *)
\* update_memory_importance(memory_id, importance)
UpdateMemoryImportance(memory_id, importance, written) ==
    /\ IF InIndex(memory_index, memory_id)
       THEN LET memory == [Lookup(memory_index, memory_id) EXCEPT !.importance = importance]
            IN /\ Len(log) < MaxLog
               /\ memory_index' = IndexPut(memory_index, memory)
               /\ log' = PersistMemory(log, memory, written)
               /\ ret' = [op |-> "update", id |-> memory_id, ok |-> TRUE]
       ELSE /\ written
            /\ ret' = [op |-> "update", id |-> memory_id, ok |-> FALSE]
            /\ UNCHANGED <<memory_index, log>>
    /\ UNCHANGED <<conversation_sessions, collections, embedding_model, vector_db,
                   last_read, now, pending, issued, deleted, returned>>

(* ------------------------------- delete ------------------------------- *)
\* the history reads of the memories an index holds
ReadsOf(reads, index) ==
    [id \in DOMAIN reads \cap IndexIds(index) |-> reads[id]]

\* the four stores delete_memory works on, as one value
StoreState(index, sessions, cols, lines) ==
    [index |-> index, sessions |-> sessions, cols |-> cols, lines |-> lines]

\* _delete_from_vector_db: collection.delete(ids=[memory_id]) in every
\* collection that exists (removed = FALSE: the delete raised and was swallowed)
DeleteFromVectorDb(cols, memory_id, removed) ==
    IF ~vector_db \/ ~removed THEN cols
    ELSE [t \in DOMAIN cols |-> SelectSeq(cols[t], LAMBDA e : e.id # memory_id)]

\* mutant: the session lists are left alone
SessionsKeep(sessions, memory_id) == sessions

\* mutant: a list is cut at the first entry of the id
SessionsCut(sessions, memory_id) ==
    [s \in DOMAIN sessions |->
        LET hits == {k \in 1..Len(sessions[s]) : sessions[s][k].id = memory_id}
        IN IF hits = {} THEN sessions[s]
           ELSE SubSeq(sessions[s], 1, (CHOOSE k \in hits : \A h \in hits : k <= h) - 1)]

\* session_memories[:] = [m for m in session_memories if m.id != memory_id]
SessionsRemove(sessions, memory_id) ==
    [s \in DOMAIN sessions |-> SelectSeq(sessions[s], LAMBDA e : e.id # memory_id)]

\* a line json.loads cannot parse
Malformed(line) == line.kind # "json"

\* a line that is not valid JSON, e.g. what is left of a record after a
\* process was killed inside f.write
TornLine == [kind |-> "torn"]

\* _delete_persisted_memory: rewrite the file without the id's lines; a line
\* that does not parse raises, the error is logged and the file is left as is
DeletePersistedMemory(lines, memory_id) ==
    IF \E i \in 1..Len(lines) : Malformed(lines[i]) THEN lines
    ELSE SelectSeq(lines, LAMBDA l : l.id # memory_id)

\* mutant: the memory leaves the index, the collections and the file, and
\* the session lists keep their entries
DeleteMemoryKeepsEntries(st, memory_id, removed) ==
    StoreState(IndexDel(st.index, memory_id),
               st.sessions,
               DeleteFromVectorDb(st.cols, memory_id, removed),
               DeletePersistedMemory(st.lines, memory_id))


\* delete_memory, lines 371-387, for an id that is in the index
DeleteMemory(st, memory_id, removed) ==
    StoreState(IndexDel(st.index, memory_id),
               SessionsRemove(st.sessions, memory_id),
               DeleteFromVectorDb(st.cols, memory_id, removed),
               DeletePersistedMemory(st.lines, memory_id))

CurrentStore == StoreState(memory_index, conversation_sessions, collections, log)

\* write a store value back into the variables
SetStore(st) ==
    /\ memory_index' = st.index
    /\ conversation_sessions' = st.sessions
    /\ collections' = st.cols
    /\ log' = st.lines

\* mutant: the membership test is missing and the call reports success
DeleteUnchecked(memory_id, removed) ==
    /\ SetStore(DeleteMemory(CurrentStore, memory_id, removed))
    /\ deleted' = deleted \cup {memory_id}
    /\ ret' = [op |-> "delete", id |-> memory_id, ok |-> TRUE]
    /\ last_read' = ReadsOf(last_read, IndexDel(memory_index, memory_id))
    /\ UNCHANGED <<embedding_model, vector_db, now, pending, issued, returned>>

\* delete_memory(memory_id)
Delete(memory_id, removed) ==
    /\ IF InIndex(memory_index, memory_id)
       THEN /\ SetStore(DeleteMemory(CurrentStore, memory_id, removed))
            /\ deleted' = deleted \cup {memory_id}
            /\ ret' = [op |-> "delete", id |-> memory_id, ok |-> TRUE]
       ELSE /\ removed
            /\ ret' = [op |-> "delete", id |-> memory_id, ok |-> FALSE]
            /\ UNCHANGED <<memory_index, conversation_sessions, collections, log, deleted>>
    /\ last_read' = ReadsOf(last_read, IndexDel(memory_index, memory_id))
    /\ UNCHANGED <<embedding_model, vector_db, now, pending, issued, returned>>

(* --------------------------- recent context --------------------------- *)
\* the sort key of line 269, (timestamp, importance): a sorts below b
RecentKeyLess(a, b) ==
    \/ a.timestamp < b.timestamp
    \/ a.timestamp = b.timestamp /\ a.importance < b.importance

\* recent_memories.sort(key=..., reverse=True) is stable: x goes before the
\* first memory whose key is smaller
RECURSIVE InsertRecent(_, _)
InsertRecent(sorted, x) ==
    IF sorted = <<>> THEN <<x>>
    ELSE IF RecentKeyLess(Head(sorted), x) THEN <<x>> \o sorted
    ELSE <<Head(sorted)>> \o InsertRecent(Tail(sorted), x)

RECURSIVE SortRecentFrom(_, _)
SortRecentFrom(sorted, items) ==
    IF items = <<>> THEN sorted
    ELSE SortRecentFrom(InsertRecent(sorted, Head(items)), Tail(items))

\* recent_memories of lines 260-265 (session_id None: no session filter)
RecentMemories(index, session_id, cutoff_time) ==
    SelectSeq(index, LAMBDA m :
        /\ m.timestamp >= cutoff_time
        /\ (session_id = NoSession \/ MetaSession(m) = session_id))

\* get_recent_context(session_id, limit, time_window)
GetRecentContext(session_id, limit, time_window) ==
    LET recent_memories ==
            SortRecentFrom(<<>>, RecentMemories(memory_index, session_id,
                                                now - time_window))
        context == SliceTo(recent_memories, limit)
    IN /\ ret' = [op |-> "recent", session_id |-> session_id, limit |-> limit,
                  time_window |-> time_window,
                  result |-> [i \in 1..Len(context) |-> context[i].id]]
       /\ UNCHANGED <<memory_index, conversation_sessions, log, collections,
                      embedding_model, vector_db, last_read, now, pending, issued, deleted,
                      returned>>


(* -------------------------- store_interaction ------------------------- *)
\* the uuids store_interaction() calls may draw: two for each of MaxIds calls
TurnIds == 1..(2 * MaxIds)

\* uuid.uuid4() when the ids in `used` have been handed out
NextUuid(used) == IF TurnIds \ used = {} THEN {}
                  ELSE {CHOOSE i \in TurnIds \ used : \A j \in TurnIds \ used : i <= j}

\* store(), lines 116-143, as a function of the four stores
StoreInto(st, memory, session_id, added, written) ==
    StoreState(IndexPut(st.index, memory),
               IF Truthy(session_id) /\ memory.type = "conversation"
               THEN SessionAppend(st.sessions, session_id, AliasEntry(memory.id))
               ELSE st.sessions,
               StoreInVectorDb(st.cols, memory, added),
               PersistMemory(st.lines, memory, written))

\* f"User: {user_input}" and f"Assistant: {assistant_response}"
UserPrefix == <<"U", "s", "e", "r", ":", " ">>
AssistantPrefix == <<"A", "s", "s", "i", "s", "t", "a", "n", "t", ":", " ">>

InteractionContent(turn, text) ==
    IF turn = "user" THEN UserPrefix \o text ELSE AssistantPrefix \o text

\* mutant: the caller's speaker key is kept
InteractionMetadataCallerSpeaker(session_id, metadata, turn) ==
    MakeMetadata(IF Truthy(metadata.session_id) THEN metadata.session_id ELSE session_id,
                 metadata.speaker)

\* {"session_id": session_id, ..., **(metadata or {}), "speaker": turn}: the
\* caller's session_id key replaces the argument, its speaker key is replaced
InteractionMetadata(session_id, metadata, turn) ==
    MakeMetadata(IF Truthy(metadata.session_id) THEN metadata.session_id ELSE session_id,
                 turn)

\* the Memory one of the two store() calls builds (importance 0.6)
TurnMemory(memory_id, turn, text, session_id, metadata, embedding) ==
    MakeMemory(memory_id, "conversation", InteractionContent(turn, text),
               InteractionMetadata(session_id, metadata, turn), now, 6, 0, now, embedding)

\* what a store() of a conversation memory adds to `returned`
TurnReturned(memory_id, session_id) ==
    [id |-> memory_id, session_id |-> IF Truthy(session_id) THEN session_id ELSE NoSession]

\* store_interaction(): without an embedding model nothing suspends and both
\* store() calls run in one step; with a model the first store() suspends
StoreInteraction(session_id, user_input, assistant_response, metadata, added, written) ==
    /\ Cardinality(TurnIds \ issued) >= 2
    /\ \E user_id \in NextUuid(issued) :
          IF EmbeddingSkipped(InteractionContent("user", user_input))
          THEN \E assistant_id \in NextUuid(issued \cup {user_id}) :
                  LET user == TurnMemory(user_id, "user", user_input, session_id,
                                         metadata, NoEmbedding)
                      assistant == TurnMemory(assistant_id, "assistant", assistant_response,
                                              session_id, metadata, NoEmbedding)
                      st == StoreInto(StoreInto(CurrentStore, user, session_id, added, written),
                                      assistant, session_id, added, written)
                  IN /\ SetStore(st)
                     /\ issued' = issued \cup {user_id, assistant_id}
                     /\ returned' = returned \o <<TurnReturned(user_id, session_id),
                                                   TurnReturned(assistant_id, session_id)>>
                     /\ ret' = [op |-> "interaction", session_id |-> session_id,
                                user_id |-> user_id, assistant_id |-> assistant_id]
                     /\ UNCHANGED pending
          ELSE /\ Cardinality(pending) < MaxPending
               /\ pending' = pending \cup
                     {[op |-> "interaction", turn |-> "user", id |-> user_id,
                       user_id |-> user_id, session_id |-> session_id,
                       metadata |-> metadata, text |-> user_input,
                       rest |-> assistant_response]}
               /\ issued' = issued \cup {user_id}
               /\ ret' = NoReturn
               /\ UNCHANGED <<memory_index, conversation_sessions, log, collections,
                              returned>>
    /\ UNCHANGED <<embedding_model, vector_db, last_read, now, deleted>>

\* store_interaction() resumes from run_in_executor: the store() that waited
\* completes; after the user turn the second store() draws its id and
\* suspends in turn, after the assistant turn the call returns
InteractionResume(call, embedded, added, written) ==
    /\ call \in pending
    /\ call.op = "interaction"
    /\ LET content == InteractionContent(call.turn, call.text)
           memory == TurnMemory(call.id, call.turn, call.text, call.session_id,
                                call.metadata,
                                IF embedded THEN Encode(content) ELSE NoEmbedding)
       IN /\ SetStore(StoreInto(CurrentStore, memory, call.session_id, added, written))
          /\ returned' = Append(returned, TurnReturned(call.id, call.session_id))
    /\ IF call.turn = "user"
       THEN \E assistant_id \in NextUuid(issued) :
               /\ issued' = issued \cup {assistant_id}
               /\ pending' = (pending \ {call}) \cup
                     {[call EXCEPT !.turn = "assistant", !.id = assistant_id,
                                   !.text = call.rest]}
               /\ ret' = NoReturn
       ELSE /\ pending' = pending \ {call}
            /\ ret' = [op |-> "interaction", session_id |-> call.session_id,
                       user_id |-> call.user_id, assistant_id |-> call.id]
            /\ UNCHANGED issued
    /\ UNCHANGED <<embedding_model, vector_db, last_read, now, deleted>>

(* ------------------------------ cleanup ------------------------------- *)
\* mutant: the SYSTEM exemption is missing
ShouldCleanupAnyType(memory, cutoff_time, min_importance) ==
    /\ memory.last_accessed < cutoff_time
    /\ memory.importance < min_importance

\* mutant: the bounds are inclusive
ShouldCleanupInclusive(memory, cutoff_time, min_importance) ==
    /\ memory.last_accessed <= cutoff_time
    /\ memory.importance <= min_importance
    /\ memory.type # "system"

\* the test of cleanup_old_memories, lines 416-418
ShouldCleanup(memory, cutoff_time, min_importance) ==
    /\ memory.last_accessed < cutoff_time
    /\ memory.importance < min_importance
    /\ memory.type # "system"

\* mutant: the candidates are those of an earlier moment, when every memory
\* still had an importance below min_importance
MemoriesToDeleteByAge(index, max_age, min_importance) ==
    LET hit == SelectSeq(index, LAMBDA m :
                   m.last_accessed < now - max_age /\ m.type # "system")
    IN [i \in 1..Len(hit) |-> hit[i].id]


\* memories_to_delete, in the index's order
MemoriesToDelete(index, max_age, min_importance) ==
    LET hit == SelectSeq(index, LAMBDA m : ShouldCleanup(m, now - max_age, min_importance))
    IN [i \in 1..Len(hit) |-> hit[i].id]

\* the loop of lines 421-423: [store after the deletes, cleaned_count]
RECURSIVE CleanupLoop(_, _, _, _)
CleanupLoop(st, ids, removed, cleaned_count) ==
    IF ids = <<>> THEN <<st, cleaned_count>>
    ELSE IF InIndex(st.index, Head(ids))
         THEN CleanupLoop(DeleteMemory(st, Head(ids), removed), Tail(ids), removed,
                          cleaned_count + 1)
         ELSE CleanupLoop(st, Tail(ids), removed, cleaned_count)

\* cleanup_old_memories(max_age, min_importance)
CleanupOldMemories(max_age, min_importance, removed) ==
    LET ids == MemoriesToDelete(memory_index, max_age, min_importance)
        done == CleanupLoop(CurrentStore, ids, removed, 0)
    IN /\ SetStore(done[1])
       /\ deleted' = deleted \cup (IndexIds(memory_index) \ IndexIds(done[1].index))
       /\ ret' = [op |-> "cleanup", max_age |-> max_age,
                  min_importance |-> min_importance, count |-> done[2]]
       /\ last_read' = ReadsOf(last_read, done[1].index)
       /\ UNCHANGED <<embedding_model, vector_db, now, pending, issued, returned>>

(* ------------------------------- search ------------------------------- *)
\* a SearchResult: the memory (by id) and its relevance_score
MakeResult(id, relevance_score) == [id |-> id, relevance_score |-> relevance_score]

\* the sort keys: "relevance" is line 553, "relevance_importance" line 597
KeyLess(index, a, b, key) ==
    \/ RatGT(b.relevance_score, a.relevance_score)
    \/ /\ key = "relevance_importance"
       /\ RatEQ(a.relevance_score, b.relevance_score)
       /\ Lookup(index, a.id).importance < Lookup(index, b.id).importance

\* list.sort(key=..., reverse=True) is stable: x goes before the first item
\* whose key is smaller
RECURSIVE InsertDesc(_, _, _, _)
InsertDesc(index, sorted, x, key) ==
    IF sorted = <<>> THEN <<x>>
    ELSE IF KeyLess(index, Head(sorted), x, key) THEN <<x>> \o sorted
    ELSE <<Head(sorted)>> \o InsertDesc(index, Tail(sorted), x, key)

RECURSIVE SortDescFrom(_, _, _, _)
SortDescFrom(index, sorted, items, key) ==
    IF items = <<>> THEN sorted
    ELSE SortDescFrom(index, InsertDesc(index, sorted, Head(items), key), Tail(items), key)

SortDesc(index, items, key) == SortDescFrom(index, <<>>, items, key)

\* mutant: the score is not doubled
FallbackRelevancePlain(query_lower, content_lower) ==
    IF Len(query_lower) >= Len(content_lower) THEN RatOne
    ELSE Rat(Len(query_lower), Len(content_lower))

\* the relevance of _search_fallback, lines 585-586, for a non-empty content:
\* min(1.0, len(query) / len(content) * 2)
FallbackRelevance(query_lower, content_lower) ==
    IF 2 * Len(query_lower) >= Len(content_lower) THEN RatOne
    ELSE Rat(2 * Len(query_lower), Len(content_lower))

\* the filters of _search_fallback, lines 574-579 (an empty list filters nothing)
PassesFilters(memory, memory_types, session_id) ==
    /\ memory_types # <<>> => memory.type \in SeqRange(memory_types)
    /\ Truthy(session_id) => MetaSession(memory) = session_id

\* line 583 is reached with a match
FallbackMatch(memory, query, memory_types, session_id) ==
    /\ PassesFilters(memory, memory_types, session_id)
    /\ Contains(Lower(memory.content), Lower(query))

\* line 585 divides by len(content_lower): an empty content that matches (the
\* query is empty too) raises ZeroDivisionError, which search() turns into []
FallbackRaises(index, query, memory_types, session_id) ==
    \E i \in 1..Len(index) :
        /\ FallbackMatch(index[i], query, memory_types, session_id)
        /\ Len(index[i].content) = 0

\* the results list of _search_fallback before the sort
FallbackHits(index, query, memory_types, min_relevance, session_id) ==
    LET hit == SelectSeq(index, LAMBDA m :
                   /\ FallbackMatch(m, query, memory_types, session_id)
                   /\ RatGE(FallbackRelevance(Lower(query), Lower(m.content)),
                            min_relevance))
    IN [i \in 1..Len(hit) |->
           MakeResult(hit[i].id, FallbackRelevance(Lower(query), Lower(hit[i].content)))]

\* _search_fallback as search() sees it
SearchFallback(index, query, limit, memory_types, min_relevance, session_id) ==
    IF FallbackRaises(index, query, memory_types, session_id) THEN <<>>
    ELSE SliceTo(SortDesc(index,
                          FallbackHits(index, query, memory_types, min_relevance,
                                       session_id),
                          "relevance_importance"),
                 limit)

\* the distance chroma reports between two vectors
Distance(u, v) == Rat(IF u >= v THEN u - v ELSE v - u, 2)

\* relevance = 1 - distance, line 538
VectorRelevance(distance) == Rat(distance[2] - distance[1], distance[2])

\* ascending by distance, stable
RECURSIVE InsertNearest(_, _, _)
InsertNearest(sorted, e, q) ==
    IF sorted = <<>> THEN <<e>>
    ELSE IF RatGT(Distance(Head(sorted).embedding, q), Distance(e.embedding, q))
         THEN <<e>> \o sorted
         ELSE <<Head(sorted)>> \o InsertNearest(Tail(sorted), e, q)

RECURSIVE NearestFrom(_, _, _)
NearestFrom(sorted, entries, q) ==
    IF entries = <<>> THEN sorted
    ELSE NearestFrom(InsertNearest(sorted, Head(entries), q), Tail(entries), q)

\* mutant: the where filter is not passed to the query
CollectionQueryNoWhere(entries, query_embedding, n_results, session_id) ==
    SubSeq(NearestFrom(<<>>, entries, query_embedding), 1, Min2(n_results, Len(entries)))


\* collection.query(query_embeddings, n_results, where): the n_results nearest
\* entries that pass the where filter
CollectionQuery(entries, query_embedding, n_results, session_id) ==
    LET pass == SelectSeq(entries, LAMBDA e :
                    Truthy(session_id) => e.session_id = session_id)
    IN SubSeq(NearestFrom(<<>>, pass, query_embedding), 1, Min2(n_results, Len(pass)))

\* mutant: a vector is reported whether or not the index still holds its id
TypeHitsStale(index, cols, memory_type, query_embedding, limit, min_relevance, session_id) ==
    IF ~CollectionExists(cols, memory_type) \/ limit <= 0 THEN <<>>
    ELSE LET found == CollectionQuery(cols[memory_type], query_embedding, limit, session_id)
             kept == SelectSeq(found, LAMBDA e :
                         RatGE(VectorRelevance(Distance(e.embedding, query_embedding)),
                               min_relevance))
         IN [i \in 1..Len(kept) |->
                MakeResult(kept[i].id,
                           VectorRelevance(Distance(kept[i].embedding, query_embedding)))]


\* one pass of the loop of lines 525-550: what one memory type adds to results.
\* A missing collection, or n_results <= 0 (chroma rejects it), raises inside
\* the inner try and adds nothing.
TypeHits(index, cols, memory_type, query_embedding, limit, min_relevance, session_id) ==
    IF ~CollectionExists(cols, memory_type) \/ limit <= 0 THEN <<>>
    ELSE LET found == CollectionQuery(cols[memory_type], query_embedding, limit, session_id)
             kept == SelectSeq(found, LAMBDA e :
                         /\ RatGE(VectorRelevance(Distance(e.embedding, query_embedding)),
                                  min_relevance)
                         /\ InIndex(index, e.id))
         IN [i \in 1..Len(kept) |->
                MakeResult(kept[i].id,
                           VectorRelevance(Distance(kept[i].embedding, query_embedding)))]

RECURSIVE VectorHits(_, _, _, _, _, _, _)
VectorHits(index, cols, types_to_search, query_embedding, limit, min_relevance, session_id) ==
    IF types_to_search = <<>> THEN <<>>
    ELSE TypeHits(index, cols, Head(types_to_search), query_embedding, limit,
                  min_relevance, session_id)
         \o VectorHits(index, cols, Tail(types_to_search), query_embedding, limit,
                       min_relevance, session_id)

\* _search_vector_db
SearchVectorDb(index, cols, query_embedding, limit, memory_types, min_relevance, session_id) ==
    LET types_to_search == IF memory_types # <<>> THEN memory_types ELSE MemoryTypeList
    IN SliceTo(SortDesc(index,
                        VectorHits(index, cols, types_to_search, query_embedding,
                                   limit, min_relevance, session_id),
                        "relevance"),
               limit)

\* search(), lines 185-194, once query_embedding is known
SearchComplete(query, limit, memory_types, min_relevance, session_id, query_embedding) ==
    LET vector == vector_db /\ query_embedding # NoEmbedding
    IN /\ ret' = [op |-> "search", query |-> query, limit |-> limit,
                  memory_types |-> memory_types, min_relevance |-> min_relevance,
                  session_id |-> session_id,
                  path |-> IF vector THEN "vector" ELSE "fallback",
                  results |->
                     IF vector
                     THEN SearchVectorDb(memory_index, collections, query_embedding,
                                         limit, memory_types, min_relevance, session_id)
                     ELSE SearchFallback(memory_index, query, limit, memory_types,
                                         min_relevance, session_id)]
       /\ UNCHANGED <<memory_index, conversation_sessions, log, collections>>

\* search(): suspend in the embedder, or go on at once without an embedding
Search(query, limit, memory_types, min_relevance, session_id) ==
    /\ IF EmbeddingSkipped(query)
       THEN /\ SearchComplete(query, limit, memory_types, min_relevance, session_id,
                              NoEmbedding)
            /\ UNCHANGED pending
       ELSE /\ Cardinality(pending) < MaxPending
            /\ pending' = pending \cup
                  {[op |-> "search", query |-> query, limit |-> limit,
                    memory_types |-> memory_types, min_relevance |-> min_relevance,
                    session_id |-> session_id]}
            /\ ret' = NoReturn
            /\ UNCHANGED <<memory_index, conversation_sessions, log, collections>>
    /\ UNCHANGED <<embedding_model, vector_db, last_read, now, issued, deleted, returned>>

\* search() resumes from run_in_executor
SearchResume(call, embedded) ==
    /\ call \in pending
    /\ call.op = "search"
    /\ pending' = pending \ {call}
    /\ SearchComplete(call.query, call.limit, call.memory_types, call.min_relevance,
                      call.session_id,
                      IF embedded THEN Encode(call.query) ELSE NoEmbedding)
    /\ UNCHANGED <<embedding_model, vector_db, last_read, now, issued, deleted, returned>>

(* ---------------------------- cancellation ---------------------------- *)
\* mutant: the CancelledError is caught like an embedder error, and a
\* cancelled store() goes on without an embedding
CancelSwallowed(call) ==
    /\ call \in pending
    /\ call.op \in {"store", "search"}
    /\ pending' = pending \ {call}
    /\ IF call.op = "store"
       THEN SetStore(StoreInto(CurrentStore,
                               MakeMemory(call.id, call.type, call.content, call.metadata,
                                          now, call.importance, 0, now, NoEmbedding),
                               call.session_id, TRUE, TRUE))
       ELSE UNCHANGED <<memory_index, conversation_sessions, log, collections>>
    /\ ret' = [op |-> "cancelled", call |-> call]
    /\ UNCHANGED <<embedding_model, vector_db, last_read, now, issued, deleted, returned>>

\* the task running a suspended store() or search() is cancelled: the await
\* of line 476 raises CancelledError, which is not an Exception, so the
\* handlers of lines 482, 152 and 196 let it pass and the call ends there
Cancel(call) ==
    /\ call \in pending
    /\ call.op \in {"store", "search"}
    /\ pending' = pending \ {call}
    /\ ret' = [op |-> "cancelled", call |-> call]
    /\ UNCHANGED <<memory_index, conversation_sessions, log, collections,
                   embedding_model, vector_db, last_read, now, issued, deleted, returned>>


(* ------------------------------ restart ------------------------------- *)
\* mutant: the replay stops at the first line that does not parse
LoadedLinesUntilMalformed(lines) ==
    LET bad == {i \in 1..Len(lines) : Malformed(lines[i])}
    IN IF bad = {} THEN lines
       ELSE SubSeq(lines, 1, (CHOOSE i \in bad : \A j \in bad : i <= j) - 1)


\* the objects _load_memories builds: one per line that parses
LoadedLines(lines) == SelectSeq(lines, LAMBDA l : ~Malformed(l))

\* mutant: the first line of an id wins
RECURSIVE LoadIndexFirstWins(_, _)
LoadIndexFirstWins(index, lines) ==
    IF lines = <<>> THEN index
    ELSE IF InIndex(index, Head(lines).id)
         THEN LoadIndexFirstWins(index, Tail(lines))
         ELSE LoadIndexFirstWins(IndexPut(index, DeserializeMemory(Head(lines))),
                                 Tail(lines))


\* self.memory_index after the loop of lines 611-626
RECURSIVE LoadIndex(_, _)
LoadIndex(index, lines) ==
    IF lines = <<>> THEN index
    ELSE LoadIndex(IndexPut(index, DeserializeMemory(Head(lines))), Tail(lines))

\* self.conversation_sessions after the loop: every conversation line with a
\* session_id in its metadata appends its own object; the object of an id's
\* last line is the one the index keeps
RECURSIVE LoadSessions(_, _)
LoadSessions(sessions, lines) ==
    IF lines = <<>> THEN sessions
    ELSE LET memory == DeserializeMemory(Head(lines))
             later == \E i \in 1..Len(Tail(lines)) : Tail(lines)[i].id = memory.id
             entry == IF later THEN OwnEntry(memory) ELSE AliasEntry(memory.id)
         IN IF memory.type = "conversation" /\ Truthy(MetaSession(memory))
            THEN LoadSessions(SessionAppend(sessions, MetaSession(memory), entry),
                              Tail(lines))
            ELSE LoadSessions(sessions, Tail(lines))

\* the process stops (suspended calls die with it) and a new one runs
\* __init__ and initialize(); the file and the chroma directory stay
Restart ==
    /\ memory_index' = LoadIndex(<<>>, LoadedLines(log))
    /\ conversation_sessions' = LoadSessions(<<>>, LoadedLines(log))
    /\ pending' = {}
    /\ ret' = [op |-> "restart"]
    /\ last_read' = ReadsOf(last_read, LoadIndex(<<>>, LoadedLines(log)))
    /\ UNCHANGED <<log, collections, embedding_model, vector_db, now, issued, deleted,
                   returned>>

\* time passes
Tick ==
    /\ now < MaxTime
    /\ now' = now + 1
    /\ ret' = NoReturn
    /\ UNCHANGED <<memory_index, conversation_sessions, log, collections,
                   embedding_model, vector_db, last_read, pending, issued, deleted, returned>>

(* ------------------------------ workloads ----------------------------- *)
(* A workload names the arguments callers pass and the answers the        *)
(* environment (embedder, chroma) gives.                                  *)

\* the ids of the records of a log
LoggedIds(lines) == {LoadedLines(lines)[i].id : i \in 1..Len(LoadedLines(lines))}

\* __init__ + initialize() at the given time on a data directory whose
\* memories.jsonl holds the given lines (the uuids of the runs that wrote
\* them are not drawn again)
InitAt(W, lines, time) ==
    /\ memory_index = LoadIndex(<<>>, LoadedLines(lines))
    /\ conversation_sessions = LoadSessions(<<>>, LoadedLines(lines))
    /\ log = lines
    /\ collections = <<>>
    /\ embedding_model \in W.embedder
    /\ vector_db \in W.vectordb
    /\ now = time
    /\ pending = {}
    /\ issued = LoggedIds(lines)
    /\ deleted = {}
    /\ returned = <<>>
    /\ last_read = <<>>
    /\ ret = NoReturn

\* the same at time 0
InitOnLog(W, lines) == InitAt(W, lines, 0)

\* __init__ + initialize() on an empty data directory
Init(W) == InitOnLog(W, <<>>)

StoreCalls(W) ==
    \E c \in W.contents, t \in W.types, m \in W.metas, i \in W.importances,
       s \in W.sessions, added \in W.chroma_ok, written \in W.disk_ok :
        Store(c, t, MakeMetadata(m, ""), i, s, added, written)

\* the embedder answers a suspended store()
StoreAnswers(W) ==
    \E call \in pending, embedded \in W.embed_ok, added \in W.chroma_ok,
       written \in W.disk_ok :
        StoreResume(call, embedded, added, written)

\* the embedder answers a suspended search()
SearchAnswers(W) ==
    \E call \in pending, embedded \in W.embed_ok :
        SearchResume(call, embedded)

SearchCalls(W) ==
    \E q \in W.queries, l \in W.search_limits, ts \in W.memory_types,
       r \in W.min_relevances, s \in W.search_sessions :
        Search(q, l, ts, r, s)

\* a store_interaction() call is admitted while fewer than W.max_turns uuids
\* would be out once both its turns are stored
InteractionCalls(W) ==
    \E s \in W.sessions, u \in W.user_inputs, a \in W.assistant_responses,
       m \in W.metas, added \in W.chroma_ok, written \in W.disk_ok :
        /\ Cardinality(issued) + 2 <= W.max_turns
        /\ StoreInteraction(s, u, a, MakeMetadata(m, "caller"), added, written)

\* the embedder answers a suspended store_interaction() (the answer to a
\* user turn waits while the uuids of the workload are used up)
InteractionAnswers(W) ==
    \E call \in pending, embedded \in W.embed_ok, added \in W.chroma_ok,
       written \in W.disk_ok :
        /\ (call.op = "interaction" /\ call.turn = "user") =>
               Cardinality(issued) + 1 <= W.max_turns
        /\ InteractionResume(call, embedded, added, written)

HistoryCalls(W) ==
    \E s \in W.history_sessions, l \in W.history_limits :
        GetConversationHistory(s, l)

UpdateCalls(W) ==
    \E id \in Ids, i \in W.new_importances, written \in W.disk_ok :
        UpdateMemoryImportance(id, i, written)

DeleteCalls(W) ==
    \E id \in Ids, removed \in W.chroma_ok :
        Delete(id, removed)

CleanupCalls(W) ==
    \E a \in W.max_ages, i \in W.min_importances, removed \in W.chroma_ok :
        CleanupOldMemories(a, i, removed)

(* Retention: stores of old and new, important and unimportant memories,  *)
(* history reads that refresh last_accessed, importance updates, sweeps.  *)
(* search() changes nothing a sweep reads and is left out; no embedding   *)
(* model is installed, so no call suspends.                               *)
RetentionLoad ==
    [contents |-> {<<"a">>},
     types |-> {"conversation", "system"},
     metas |-> {NoSession},
     sessions |-> {"s1"},
     importances |-> {1, 3},
     embedder |-> {FALSE},
     vectordb |-> {FALSE},
     chroma_ok |-> {TRUE},
     disk_ok |-> {TRUE},
     history_sessions |-> {"s1"},
     history_limits |-> {1},
     new_importances |-> {1},
     max_ages |-> {0, 1},
     min_importances |-> {3, 17}]

NextRetention ==
    \/ StoreCalls(RetentionLoad)
    \/ HistoryCalls(RetentionLoad)
    \/ CleanupCalls(RetentionLoad)
    \/ Tick

SpecRetention == Init(RetentionLoad) /\ [][NextRetention]_vars

(* Sessions: conversation turns of two sessions and memories outside any *)
(* session, stored while other stores wait for the embedder, deleted, and *)
(* read back with every kind of limit.  Nothing here reads the clock.     *)
SessionLoad ==
    [contents |-> {<<"a">>},
     types |-> {"conversation", "factual"},
     metas |-> {NoSession},
     sessions |-> {NoSession, "s1", "s2"},
     importances |-> {5},
     embedder |-> {TRUE},
     vectordb |-> {FALSE},
     chroma_ok |-> {TRUE},
     disk_ok |-> {TRUE},
     embed_ok |-> {TRUE},
     history_sessions |-> {"s1", "s2"},
     history_limits |-> {-1, 0, 1, 3}]

NextSession ==
    \/ StoreCalls(SessionLoad)
    \/ StoreAnswers(SessionLoad)
    \/ HistoryCalls(SessionLoad)
    \/ DeleteCalls(SessionLoad)

SpecSession == Init(SessionLoad) /\ [][NextSession]_vars

(* Restarts: conversation turns stored with and without a session (as     *)
(* argument, in the metadata, or both) while other stores wait for the    *)
(* embedder, importance updates (each appends a line to the log), deletes, *)
(* history reads, and the process restarting at any point.                *)
RestartLoad ==
    [contents |-> {<<"a">>},
     types |-> {"conversation"},
     metas |-> {"s1"},
     sessions |-> {NoSession, "s1"},
     importances |-> {5},
     embedder |-> {TRUE},
     vectordb |-> {FALSE},
     chroma_ok |-> {TRUE},
     disk_ok |-> {TRUE},
     embed_ok |-> {TRUE},
     history_sessions |-> {"s1"},
     history_limits |-> {1},
     new_importances |-> {17}]

NextRestart ==
    \/ StoreCalls(RestartLoad)
    \/ StoreAnswers(RestartLoad)
    \/ HistoryCalls(RestartLoad)
    \/ UpdateCalls(RestartLoad)
    \/ DeleteCalls(RestartLoad)
    \/ Restart

SpecRestart == Init(RestartLoad) /\ [][NextRestart]_vars

(* Lexical search: no embedding model is installed, so every search() is  *)
(* the text scan.  Contents of several lengths and cases (one empty),     *)
(* of two types, with and without a session in the metadata; queries     *)
(* that match none, one or both; a type filter, with and without a        *)
(* session filter; limits below, at and above the number of matches.      *)
SearchLoad ==
    [contents |-> {<<>>, <<"b">>, <<"A", "b", "a">>},
     types |-> {"conversation", "factual"},
     metas |-> {NoSession, "s1"},
     sessions |-> {NoSession},
     importances |-> {5},
     embedder |-> {FALSE},
     vectordb |-> {FALSE},
     chroma_ok |-> {TRUE},
     disk_ok |-> {TRUE},
     queries |-> {<<>>, <<"a">>, <<"B">>},
     search_limits |-> {-1, 1, 2},
     memory_types |-> {<<"factual">>},
     min_relevances |-> {RatZero, RatOne},
     search_sessions |-> {NoSession, "s1"}]

NextSearch ==
    \/ StoreCalls(SearchLoad)
    \/ SearchCalls(SearchLoad)

SpecSearch == Init(SearchLoad) /\ [][NextSearch]_vars

(* Round trips: memories of different contents and types, stored in one   *)
(* session with importance 0.0 (the falsy end of [0, 1]), then read        *)
(* through the history, re-scored to 0.5, deleted, and reloaded by a       *)
(* restart.                                                                *)
RoundTripLoad ==
    [contents |-> {<<"a">>, <<"b">>},
     types |-> {"conversation", "factual"},
     metas |-> {NoSession},
     sessions |-> {"s1"},
     importances |-> {0},
     embedder |-> {FALSE},
     vectordb |-> {FALSE},
     chroma_ok |-> {TRUE},
     disk_ok |-> {TRUE},
     history_sessions |-> {"s1"},
     history_limits |-> {1},
     new_importances |-> {5}]

NextRoundTrip ==
    \/ StoreCalls(RoundTripLoad)
    \/ HistoryCalls(RoundTripLoad)
    \/ UpdateCalls(RoundTripLoad)
    \/ DeleteCalls(RoundTripLoad)
    \/ Restart

SpecRoundTrip == Init(RoundTripLoad) /\ [][NextRoundTrip]_vars

(* Durability: conversation turns stored, re-scored and deleted while the  *)
(* disk sometimes refuses a write, on a data directory whose log is empty  *)
(* or ends in a line cut short by an earlier crash, with restarts at any   *)
(* point.                                                                  *)
DurabilityLoad ==
    [contents |-> {<<"a">>},
     types |-> {"conversation"},
     metas |-> {"s1"},
     sessions |-> {"s1"},
     importances |-> {5},
     embedder |-> {FALSE},
     vectordb |-> {FALSE},
     chroma_ok |-> {TRUE},
     disk_ok |-> {TRUE, FALSE},
     new_importances |-> {7}]

InitDurability ==
    \E lines \in {<<>>, <<TornLine>>} : InitOnLog(DurabilityLoad, lines)

NextDurability ==
    \/ StoreCalls(DurabilityLoad)
    \/ UpdateCalls(DurabilityLoad)
    \/ DeleteCalls(DurabilityLoad)
    \/ Restart

SpecDurability == InitDurability /\ [][NextDurability]_vars

(* Degraded capabilities: every combination of an embedding model and a   *)
(* vector database being installed or not, the model answering or raising, *)
(* chroma accepting or refusing an add or a delete; conversation turns     *)
(* stored with and without a session, and deleted.                         *)
DegradedLoad ==
    [contents |-> {<<"a">>},
     types |-> {"conversation"},
     metas |-> {NoSession},
     sessions |-> {NoSession, "s1"},
     importances |-> {5},
     embedder |-> {TRUE, FALSE},
     vectordb |-> {TRUE, FALSE},
     embed_ok |-> {TRUE, FALSE},
     chroma_ok |-> {TRUE, FALSE},
     disk_ok |-> {TRUE}]

NextDegraded ==
    \/ StoreCalls(DegradedLoad)
    \/ StoreAnswers(DegradedLoad)
    \/ DeleteCalls(DegradedLoad)

SpecDegraded == Init(DegradedLoad) /\ [][NextDegraded]_vars

(* Interactions: store_interaction() on two sessions and with an empty    *)
(* session id, with and without a session_id key in the caller's metadata, *)
(* with and without an embedding model (which may raise), next to plain    *)
(* store() calls on the same session and history reads.                    *)
InteractionLoad ==
    [contents |-> {<<"a">>},
     types |-> {"conversation"},
     metas |-> {NoSession, "s2"},
     sessions |-> {NoSession, "s1", "s2"},
     importances |-> {5},
     user_inputs |-> {<<>>, <<"a">>},
     assistant_responses |-> {<<"b">>},
     max_turns |-> MaxIds,
     embedder |-> {TRUE, FALSE},
     vectordb |-> {FALSE},
     embed_ok |-> {TRUE, FALSE},
     chroma_ok |-> {TRUE},
     disk_ok |-> {TRUE},
     history_sessions |-> {"s1", "s2"},
     history_limits |-> {2}]

NextInteraction ==
    \/ InteractionCalls(InteractionLoad)
    \/ InteractionAnswers(InteractionLoad)
    \/ StoreCalls(InteractionLoad)
    \/ StoreAnswers(InteractionLoad)
    \/ HistoryCalls(InteractionLoad)

SpecInteraction == Init(InteractionLoad) /\ [][NextInteraction]_vars

(* Lifecycle: a data directory that is empty or holds a conversation turn *)
(* an earlier run stored at time 0; from time 1 on, turns of the same      *)
(* session are stored with a low importance, searched, read through the   *)
(* history, re-scored, swept (what was last accessed before now goes) and  *)
(* reloaded by a restart, in any order.                                    *)
LifecycleLoad ==
    [contents |-> {<<"B">>},
     types |-> {"conversation"},
     metas |-> {"s1"},
     sessions |-> {"s1"},
     importances |-> {1},
     embedder |-> {FALSE},
     vectordb |-> {FALSE},
     chroma_ok |-> {TRUE},
     disk_ok |-> {TRUE},
     queries |-> {<<"a">>},
     search_limits |-> {1},
     memory_types |-> {<<>>},
     min_relevances |-> {RatZero},
     search_sessions |-> {NoSession},
     history_sessions |-> {"s1"},
     history_limits |-> {1, 2},
     new_importances |-> {5},
     max_ages |-> {0},
     min_importances |-> {3}]

\* the line the earlier run's store() left in memories.jsonl
EarlierLine ==
    SerializeMemory(MakeMemory(1, "conversation", <<"a">>, MakeMetadata("s1", ""),
                               0, 1, 0, 0, NoEmbedding))

\* __init__ + initialize() at time 1
InitLifecycle ==
    \E lines \in {<<>>, <<EarlierLine>>} : InitAt(LifecycleLoad, lines, 1)

NextLifecycle ==
    \/ StoreCalls(LifecycleLoad)
    \/ SearchCalls(LifecycleLoad)
    \/ HistoryCalls(LifecycleLoad)
    \/ UpdateCalls(LifecycleLoad)
    \/ CleanupCalls(LifecycleLoad)
    \/ Restart

SpecLifecycle == InitLifecycle /\ [][NextLifecycle]_vars

RecentCalls(W) ==
    \E s \in W.recent_sessions, l \in W.recent_limits, w \in W.time_windows :
        GetRecentContext(s, l, w)

(* Recent context: memories of two types, with and without a session in    *)
(* the metadata, stored at different times, and get_recent_context() with   *)
(* and without a session, with limits below, at and above the number of    *)
(* recent memories, and with windows that do and do not reach back.        *)
RecentLoad ==
    [contents |-> {<<"a">>},
     types |-> {"conversation", "factual"},
     metas |-> {NoSession, "s1"},
     sessions |-> {NoSession},
     importances |-> {5},
     embedder |-> {FALSE},
     vectordb |-> {FALSE},
     chroma_ok |-> {TRUE},
     disk_ok |-> {TRUE},
     recent_sessions |-> {NoSession, "s1"},
     recent_limits |-> {-1, 1, 2},
     time_windows |-> {0, 1}]

NextRecent ==
    \/ StoreCalls(RecentLoad)
    \/ RecentCalls(RecentLoad)
    \/ Tick

SpecRecent == Init(RecentLoad) /\ [][NextRecent]_vars


(* Replay: a data directory whose log holds a record of an earlier run      *)
(* followed by a line that does not parse; memories of two types are        *)
(* stored, re-scored and deleted behind it, with restarts at any point.     *)
ReplayLoad ==
    [contents |-> {<<"b">>},
     types |-> {"conversation", "factual"},
     metas |-> {"s1"},
     sessions |-> {"s1"},
     importances |-> {5},
     embedder |-> {FALSE},
     vectordb |-> {FALSE},
     chroma_ok |-> {TRUE},
     disk_ok |-> {TRUE},
     new_importances |-> {7}]

InitReplay ==
    \E lines \in {<<TornLine>>, <<EarlierLine, TornLine>>} :
        InitAt(ReplayLoad, lines, 1)

NextReplay ==
    \/ StoreCalls(ReplayLoad)
    \/ UpdateCalls(ReplayLoad)
    \/ DeleteCalls(ReplayLoad)
    \/ Restart

SpecReplay == InitReplay /\ [][NextReplay]_vars


(* Vector search: an embedding model (which may raise) and a vector         *)
(* database are installed; memories are stored and searched with queries   *)
(* whose vectors are at and away from the stored ones, with thresholds the  *)
(* vector score of a lexical match does and does not reach.                 *)
VectorLoad ==
    [contents |-> {<<"a", "b">>},
     types |-> {"factual"},
     metas |-> {NoSession},
     sessions |-> {NoSession},
     importances |-> {5},
     embedder |-> {TRUE},
     vectordb |-> {TRUE},
     embed_ok |-> {TRUE, FALSE},
     chroma_ok |-> {TRUE},
     disk_ok |-> {TRUE},
     queries |-> {<<"a">>, <<"A", "b">>},
     search_limits |-> {2},
     memory_types |-> {<<>>},
     min_relevances |-> {Rat(1, 2), RatOne},
     search_sessions |-> {NoSession}]

NextVector ==
    \/ StoreCalls(VectorLoad)
    \/ StoreAnswers(VectorLoad)
    \/ SearchCalls(VectorLoad)
    \/ SearchAnswers(VectorLoad)

SpecVector == Init(VectorLoad) /\ [][NextVector]_vars


(* Filters: memories of two types, with and without a session in their    *)
(* metadata, are stored and searched with and without a type filter and a  *)
(* session filter; the embedding model answers or raises, so one run takes *)
(* both the vector path and the lexical one.                               *)
FilterLoad ==
    [contents |-> {<<"a">>},
     types |-> {"conversation", "factual"},
     metas |-> {NoSession, "s1"},
     sessions |-> {NoSession},
     importances |-> {5},
     embedder |-> {TRUE},
     vectordb |-> {TRUE},
     embed_ok |-> {TRUE, FALSE},
     chroma_ok |-> {TRUE},
     disk_ok |-> {TRUE},
     queries |-> {<<"a">>},
     search_limits |-> {2},
     memory_types |-> {<<>>, <<"factual">>},
     min_relevances |-> {RatZero},
     search_sessions |-> {NoSession, "s1"}]

NextFilter ==
    \/ StoreCalls(FilterLoad)
    \/ StoreAnswers(FilterLoad)
    \/ SearchCalls(FilterLoad)
    \/ SearchAnswers(FilterLoad)

SpecFilter == Init(FilterLoad) /\ [][NextFilter]_vars


(* Concurrent writers: callers of two sessions run store(), which suspends *)
(* in the embedder, update_memory_importance(), delete_memory() and        *)
(* cleanup_old_memories() against each other while time passes.           *)
ConcurrentLoad ==
    [contents |-> {<<"a">>},
     types |-> {"conversation"},
     metas |-> {NoSession},
     sessions |-> {"s1", "s2"},
     importances |-> {1},
     embedder |-> {TRUE},
     vectordb |-> {TRUE},
     embed_ok |-> {TRUE},
     chroma_ok |-> {TRUE},
     disk_ok |-> {TRUE},
     new_importances |-> {5},
     max_ages |-> {0},
     min_importances |-> {3}]

NextConcurrent ==
    \/ StoreCalls(ConcurrentLoad)
    \/ StoreAnswers(ConcurrentLoad)
    \/ UpdateCalls(ConcurrentLoad)
    \/ DeleteCalls(ConcurrentLoad)
    \/ CleanupCalls(ConcurrentLoad)
    \/ Tick

SpecConcurrent == Init(ConcurrentLoad) /\ [][NextConcurrent]_vars


\* a caller cancels a suspended call
CancelCalls ==
    \E call \in pending : Cancel(call)

(* Cancellation: stores and searches suspend in the embedder and are      *)
(* either answered or cancelled there, in any order.                      *)
CancelLoad ==
    [contents |-> {<<"a">>},
     types |-> {"conversation"},
     metas |-> {NoSession},
     sessions |-> {"s1", "s2"},
     importances |-> {5},
     embedder |-> {TRUE},
     vectordb |-> {TRUE},
     embed_ok |-> {TRUE, FALSE},
     chroma_ok |-> {TRUE},
     disk_ok |-> {TRUE},
     queries |-> {<<"a">>},
     search_limits |-> {1},
     memory_types |-> {<<>>},
     min_relevances |-> {RatZero},
     search_sessions |-> {NoSession, "s1"}]

NextCancel ==
    \/ StoreCalls(CancelLoad)
    \/ StoreAnswers(CancelLoad)
    \/ SearchCalls(CancelLoad)
    \/ SearchAnswers(CancelLoad)
    \/ CancelCalls

SpecCancel == Init(CancelLoad) /\ [][NextCancel]_vars


(* Aging: a session's memories, one of them written by an earlier run, are *)
(* read through get_conversation_history(), re-scored and swept while time *)
(* passes, and the process may restart in between.                         *)
AgingLoad ==
    [contents |-> {<<"b">>},
     types |-> {"conversation"},
     metas |-> {"s1"},
     sessions |-> {"s1"},
     importances |-> {1},
     embedder |-> {FALSE},
     vectordb |-> {FALSE},
     chroma_ok |-> {TRUE},
     disk_ok |-> {TRUE},
     history_sessions |-> {"s1"},
     history_limits |-> {1},
     new_importances |-> {2},
     max_ages |-> {1},
     min_importances |-> {3}]

InitAging == \E lines \in {<<>>, <<EarlierLine>>} : InitAt(AgingLoad, lines, 1)

NextAging ==
    \/ StoreCalls(AgingLoad)
    \/ HistoryCalls(AgingLoad)
    \/ UpdateCalls(AgingLoad)
    \/ CleanupCalls(AgingLoad)
    \/ Tick
    \/ Restart

SpecAging == InitAging /\ [][NextAging]_vars

\* the same within one run of the process
NextAgingOneRun ==
    \/ StoreCalls(AgingLoad)
    \/ HistoryCalls(AgingLoad)
    \/ UpdateCalls(AgingLoad)
    \/ CleanupCalls(AgingLoad)
    \/ Tick

SpecAgingOneRun == InitAging /\ [][NextAgingOneRun]_vars


(* Sweeps among other callers: the process runs one time unit after an    *)
(* earlier run wrote a memory; stores suspend in the embedder, history     *)
(* reads refresh and importance updates re-score the session's memories    *)
(* while sweeps run.                                                       *)
SweepLoad ==
    [contents |-> {<<"a">>},
     types |-> {"conversation"},
     metas |-> {NoSession},
     sessions |-> {"s1"},
     importances |-> {1},
     embedder |-> {TRUE},
     vectordb |-> {FALSE},
     embed_ok |-> {TRUE},
     chroma_ok |-> {TRUE},
     disk_ok |-> {TRUE},
     history_sessions |-> {"s1"},
     history_limits |-> {1},
     new_importances |-> {5},
     max_ages |-> {0},
     min_importances |-> {3}]

InitSweep == \E lines \in {<<>>, <<EarlierLine>>} : InitAt(SweepLoad, lines, 1)

NextSweep ==
    \/ StoreCalls(SweepLoad)
    \/ StoreAnswers(SweepLoad)
    \/ HistoryCalls(SweepLoad)
    \/ UpdateCalls(SweepLoad)
    \/ CleanupCalls(SweepLoad)

SpecSweep == InitSweep /\ [][NextSweep]_vars


(* Conversations: an embedding model is installed, so each store() of a   *)
(* store_interaction() suspends in the embedder, and callers of one or two *)
(* sessions have up to MaxPending interactions under way at a time.        *)
TurnsLoad ==
    [sessions |-> {"s1", "s2"},
     user_inputs |-> {<<"a">>},
     assistant_responses |-> {<<"b">>},
     metas |-> {NoSession},
     max_turns |-> 2 * MaxIds,
     embedder |-> {TRUE},
     vectordb |-> {FALSE},
     embed_ok |-> {TRUE, FALSE},
     chroma_ok |-> {TRUE},
     disk_ok |-> {TRUE}]

NextTurns ==
    \/ InteractionCalls(TurnsLoad)
    \/ InteractionAnswers(TurnsLoad)

SpecTurns == Init(TurnsLoad) /\ [][NextTurns]_vars


(* Deleted memories and search: an embedding model and a vector database  *)
(* are installed; memories are stored, deleted by id or swept once they    *)
(* are old, with the vector deletion succeeding or failing, and searched   *)
(* on the vector path (the embedder answers) and the lexical one (it       *)
(* raises); the process may restart.                                       *)
ForgetLoad ==
    [contents |-> {<<"a">>},
     types |-> {"factual"},
     metas |-> {NoSession},
     sessions |-> {NoSession},
     importances |-> {1},
     embedder |-> {TRUE},
     vectordb |-> {TRUE},
     embed_ok |-> {TRUE, FALSE},
     chroma_ok |-> {TRUE, FALSE},
     disk_ok |-> {TRUE},
     queries |-> {<<"a">>},
     search_limits |-> {2},
     memory_types |-> {<<>>},
     min_relevances |-> {RatZero},
     search_sessions |-> {NoSession},
     max_ages |-> {0},
     min_importances |-> {3}]

NextForget ==
    \/ StoreCalls(ForgetLoad)
    \/ StoreAnswers(ForgetLoad)
    \/ SearchCalls(ForgetLoad)
    \/ SearchAnswers(ForgetLoad)
    \/ DeleteCalls(ForgetLoad)
    \/ CleanupCalls(ForgetLoad)
    \/ Tick
    \/ Restart

SpecForget == Init(ForgetLoad) /\ [][NextForget]_vars


(* ------------------------------- claims ------------------------------- *)

\* C1: the ids store() returns are pairwise distinct, and none is the id of
\* a memory already in the store, also when stores overtake each other at
\* the embedder and after a restart that replays the log.
C1_StoreIdsDistinct ==
    [][Len(returned') > Len(returned) =>
          LET id == returned'[Len(returned')].id
          IN /\ \A k \in 1..Len(returned) : returned[k].id # id
             /\ ~InIndex(memory_index, id)
             /\ ret'.op = "store" /\ ret'.id = id]_vars

\* C1 witness: a store() has returned its id while a store() that drew its
\* id earlier is still waiting for the embedder.
C1_Witness ==
    /\ Len(returned) >= 1
    /\ \E call \in pending :
          call.op = "store" /\ call.id < returned[Len(returned)].id

\* C2 (as claimed): every stored memory has its importance within [0, 1]
\* (importances are in tenths).
C2_ImportanceInRange ==
    \A i \in 1..Len(memory_index) :
        memory_index[i].importance >= 0 /\ memory_index[i].importance <= 10

\* the limits a caller may pass to get_conversation_history
C3_Limits == (0 - MaxIds - 1)..(MaxIds + 1)

\* C3: once delete_memory(id) returned True, the id is not in the index and
\* no get_conversation_history result, for any session and limit, contains
\* it, whatever is called afterwards.
C3_DeletedStaysGone ==
    \A id \in deleted :
        /\ ~InIndex(memory_index, id)
        /\ \A s \in DOMAIN conversation_sessions, l \in C3_Limits :
              LET memories == HistorySlice(conversation_sessions, s, l)
              IN \A i \in 1..Len(memories) : memories[i].id # id
        /\ ret.op = "history" => id \notin SeqRange(ret.result)

\* C3 witness: a history read of a session returned something after a
\* conversation memory of that session was deleted.
C3_Witness ==
    /\ ret.op = "history"
    /\ ret.result # <<>>
    /\ \E k \in 1..Len(returned) :
          returned[k].id \in deleted /\ returned[k].session_id = ret.session_id

\* the eviction test as the retention policy words it, on the state before
\* the sweep: not SYSTEM, strictly older than max_age, strictly below
\* min_importance
C5_Evictable(memory, max_age, min_importance) ==
    /\ memory.type # "system"
    /\ now - memory.last_accessed > max_age
    /\ memory.importance < min_importance

\* C4: no sweep removes or changes a SYSTEM memory: every SYSTEM memory of
\* the index before cleanup_old_memories is in the index after it, unchanged,
\* whatever max_age, min_importance, its importance and its last_accessed.
C4_SweepKeepsSystem ==
    [][ret'.op = "cleanup" =>
          \A i \in 1..Len(memory_index) :
              memory_index[i].type = "system" =>
                  \E j \in 1..Len(memory_index') : memory_index'[j] = memory_index[i]]_vars

\* C4 witness: a sweep has just removed something while a SYSTEM memory that
\* is old and unimportant enough for its thresholds is still in the index.
C4_Witness ==
    /\ ret.op = "cleanup"
    /\ ret.count > 0
    /\ \E i \in 1..Len(memory_index) :
          /\ memory_index[i].type = "system"
          /\ now - memory_index[i].last_accessed > ret.max_age
          /\ memory_index[i].importance < ret.min_importance

\* C5: cleanup_old_memories(max_age, min_importance) removes exactly the
\* memories that are not SYSTEM, strictly older than max_age and strictly
\* below min_importance; the others stay, unchanged and in order; the count
\* returned is the number removed.
C5_SweepRemovesExactly ==
    [][ret'.op = "cleanup" =>
          LET kept == SelectSeq(memory_index, LAMBDA m :
                          ~C5_Evictable(m, ret'.max_age, ret'.min_importance))
          IN /\ memory_index' = kept
             /\ ret'.count = Len(memory_index) - Len(kept)]_vars

\* C5 witness: a sweep removed a memory and kept a non-SYSTEM memory below
\* min_importance whose age is exactly max_age (the strict bound).
C5_Witness ==
    /\ ret.op = "cleanup"
    /\ ret.count > 0
    /\ \E i \in 1..Len(memory_index) :
          /\ memory_index[i].type # "system"
          /\ memory_index[i].importance < ret.min_importance
          /\ now - memory_index[i].last_accessed = ret.max_age

\* the ids of the live memories store() appended to a session's list, in the
\* order in which the store() calls inserted them
C6_StoredInSession(session_id) ==
    LET live == SelectSeq(returned, LAMBDA r :
                    r.session_id = session_id /\ InIndex(memory_index, r.id))
    IN [i \in 1..Len(live) |-> live[i].id]

C7_HistoryAtMostLimit ==
    (ret.op = "history" /\ ret.session_id \in DOMAIN conversation_sessions) =>
        LET list == conversation_sessions[ret.session_id]
            n == Len(list)
            last == SubSeq(list, n - Min2(ret.limit, n) + 1, n)
        IN /\ Len(ret.result) <= Max2(ret.limit, 0)
           /\ ret.limit > 0 => ret.result = [i \in 1..Len(last) |-> last[i].id]

\* clamp(2 * len(query) / len(content), 0, 1), the relevance the claim names
C8_Clamp(query, content) ==
    LET r == Rat(2 * Len(query), Len(content))
    IN IF RatGT(r, RatOne) THEN RatOne ELSE IF RatGT(RatZero, r) THEN RatZero ELSE r

\* the memories the claim says a lexical search returns: they pass the
\* filters of the call, their lower-cased content contains the lower-cased
\* query and their clamped relevance reaches min_relevance
C8_Qualifying ==
    {m \in SeqRange(memory_index) :
        /\ ret.memory_types # <<>> => m.type \in SeqRange(ret.memory_types)
        /\ ret.session_id # NoSession => m.metadata.session_id = ret.session_id
        /\ Contains(Lower(m.content), Lower(ret.query))
        /\ RatGE(C8_Clamp(ret.query, m.content), ret.min_relevance)}

\* C8 (as claimed): a lexical search returns a memory if and only if it
\* qualifies, with exactly the clamped relevance.
C8_LexicalIffQualifies ==
    (ret.op = "search" /\ ret.path = "fallback") =>
        /\ \A k \in 1..Len(ret.results) :
              \E m \in C8_Qualifying :
                  /\ m.id = ret.results[k].id
                  /\ RatEQ(ret.results[k].relevance_score, C8_Clamp(ret.query, m.content))
        /\ \A m \in C8_Qualifying :
              \E k \in 1..Len(ret.results) : ret.results[k].id = m.id

\* C8 (amended): a lexical search with a non-empty query returns only
\* memories that qualify, each with exactly the clamped relevance, and
\* returns every qualifying memory when there are at most limit of them.
C8_LexicalWithinLimit ==
    (ret.op = "search" /\ ret.path = "fallback" /\ ret.query # <<>>) =>
        /\ \A k \in 1..Len(ret.results) :
              \E m \in C8_Qualifying :
                  /\ m.id = ret.results[k].id
                  /\ RatEQ(ret.results[k].relevance_score, C8_Clamp(ret.query, m.content))
        /\ Cardinality(C8_Qualifying) <= ret.limit =>
              \A m \in C8_Qualifying :
                  \E k \in 1..Len(ret.results) : ret.results[k].id = m.id

\* C8 witness: a lexical search with an upper-case query returned a memory
\* with a relevance below 1 and left another memory of the index out.
C8_Witness ==
    /\ ret.op = "search"
    /\ ret.path = "fallback"
    /\ ret.query # Lower(ret.query)
    /\ \E k \in 1..Len(ret.results) : ~RatEQ(ret.results[k].relevance_score, RatOne)
    /\ Len(ret.results) < Len(memory_index)

\* C9 (as claimed): every search result list is ordered by relevance_score,
\* highest first, has at most limit entries (none for limit <= 0) and holds
\* only entries whose relevance_score is at least min_relevance.
C9_SearchContract ==
    ret.op = "search" =>
        /\ \A i, j \in 1..Len(ret.results) :
              i < j => RatGE(ret.results[i].relevance_score, ret.results[j].relevance_score)
        /\ Len(ret.results) <= Max2(ret.limit, 0)
        /\ \A k \in 1..Len(ret.results) :
              RatGE(ret.results[k].relevance_score, ret.min_relevance)

\* C10 (as claimed): a search with an empty query returns no result.
C10_EmptyQueryEmptyResult ==
    (ret.op = "search" /\ ret.query = <<>>) => ret.results = <<>>

\* C11 (as claimed): a search with limit <= 0 returns an empty result list,
\* whatever the query and the memories stored.
C11_NoResultWithoutLimit ==
    (ret.op = "search" /\ ret.limit <= 0) => ret.results = <<>>

\* the step is none of the calls the claim excepts for this memory: an
\* importance update of it, a history read that returns it, a delete of it
\* (a restart reloads the persisted access_count, so a memory read through
\* since it was loaded is excepted there too)
C12_Quiet(memory) ==
    /\ ~(ret'.op = "update" /\ ret'.id = memory.id)
    /\ ~(ret'.op = "delete" /\ ret'.id = memory.id)
    /\ ~(ret'.op = "history" /\ memory.id \in SeqRange(ret'.result))
    /\ ~(ret'.op = "restart" /\ memory.access_count > 0)

\* C12: when store(c, t, metadata, i, session) with a non-empty c and i in
\* [0, 1] returns id, the index holds under id a memory with content c, type
\* t, importance i and access_count 0, and every step other than an update,
\* a read-through or a delete of that id leaves these four fields as they are.
C12_StoredAsGiven ==
    [][/\ (ret'.op = "store" /\ ret'.content # <<>> /\ ret'.importance \in 0..10) =>
             /\ InIndex(memory_index', ret'.id)
             /\ Lookup(memory_index', ret'.id).content = ret'.content
             /\ Lookup(memory_index', ret'.id).type = ret'.type
             /\ Lookup(memory_index', ret'.id).importance = ret'.importance
             /\ Lookup(memory_index', ret'.id).access_count = 0
       /\ \A i \in 1..Len(memory_index) :
             C12_Quiet(memory_index[i]) =>
                 \E j \in 1..Len(memory_index') :
                     /\ memory_index'[j].id = memory_index[i].id
                     /\ memory_index'[j].content = memory_index[i].content
                     /\ memory_index'[j].type = memory_index[i].type
                     /\ memory_index'[j].importance = memory_index[i].importance
                     /\ memory_index'[j].access_count = memory_index[i].access_count]_vars

\* C12 witness: a store() has just returned and the index holds two
\* memories, never read, that differ in content and in type, one still with
\* the importance 0.0 it was stored with and one re-scored since.
C12_Witness ==
    /\ ret.op = "store"
    /\ Len(memory_index) = 2
    /\ memory_index[1].content # memory_index[2].content
    /\ memory_index[1].type # memory_index[2].type
    /\ {memory_index[1].importance, memory_index[2].importance} = {0, 5}
    /\ memory_index[1].access_count = 0
    /\ memory_index[2].access_count = 0

\* C13 (as claimed): store() returns an id only when the memory's line is
\* in memories.jsonl.
C13_StoreReturnsOnlyLogged ==
    ret.op = "store" =>
        \E i \in 1..Len(log) : ~Malformed(log[i]) /\ log[i].id = ret.id

\* C14 (as claimed): store() with an empty content is rejected: it returns
\* no id and no memory with an empty content enters the index, a session
\* list or the log.
C14_EmptyContentRejected ==
    /\ ret.op = "store" => ret.content # <<>>
    /\ \A i \in 1..Len(memory_index) : memory_index[i].content # <<>>
    /\ \A i \in 1..Len(log) : ~Malformed(log[i]) => log[i].content # <<>>

\* the ids that have an entry in some chroma collection
C15_VectorIds(cols) ==
    UNION {{cols[t][i].id : i \in 1..Len(cols[t])} : t \in DOMAIN cols}

\* C15: whether the embedding model and the vector database are installed or
\* not, answer or raise, every store() that gets past the embedder returns
\* its id, and when it returns the memory is in the index, at the end of its
\* session list when it has one, and in the last line of the log; it has no
\* embedding when no model is installed, and no vector entry when it has no
\* embedding or no vector database is installed.
C15_StoreSurvivesDegradation ==
    [][/\ \A call \in pending \ pending' :
             call.op = "store" => (ret'.op = "store" /\ ret'.id = call.id)
       /\ ret'.op = "store" =>
             /\ InIndex(memory_index', ret'.id)
             /\ (ret'.session_id # NoSession /\ ret'.type = "conversation") =>
                   LET list == conversation_sessions'[ret'.session_id]
                   IN list[Len(list)].id = ret'.id
             /\ Len(log') = Len(log) + 1
             /\ log'[Len(log')].id = ret'.id
             /\ ~embedding_model =>
                   Lookup(memory_index', ret'.id).embedding = NoEmbedding
             /\ (Lookup(memory_index', ret'.id).embedding = NoEmbedding \/ ~vector_db) =>
                   ret'.id \notin C15_VectorIds(collections')]_vars

\* C15 witness: with a model and a vector database installed, a store() has
\* just returned a memory without an embedding (the model raised) while the
\* index also holds a memory that has an embedding and no vector entry
\* (chroma refused the add).
C15_Witness ==
    /\ ret.op = "store"
    /\ embedding_model
    /\ vector_db
    /\ Lookup(memory_index, ret.id).embedding = NoEmbedding
    /\ \E i \in 1..Len(memory_index) :
          /\ memory_index[i].embedding # NoEmbedding
          /\ memory_index[i].id \notin C15_VectorIds(collections)

\* C16: update_memory_importance(id, x) and delete_memory(id) for an id that
\* is not in the index (never stored, or deleted before) return False and
\* leave the index, every session list and the log as they are.
C16_AbsentIdIsNotFound ==
    [][(ret'.op \in {"update", "delete"} /\ ~InIndex(memory_index, ret'.id)) =>
          /\ ret'.ok = FALSE
          /\ UNCHANGED <<memory_index, conversation_sessions, log>>]_vars

\* C16 witness: delete_memory has just returned False for an id that was
\* deleted before, while the index, a session list and the log hold another
\* memory.
C16_Witness ==
    /\ ret.op = "delete"
    /\ ~ret.ok
    /\ ret.id \in deleted
    /\ memory_index # <<>>
    /\ conversation_sessions # <<>>
    /\ log # <<>>

\* the positions of a memory id in one session list
C17_Positions(session_id, id) ==
    IF session_id \notin DOMAIN conversation_sessions THEN {}
    ELSE {k \in 1..Len(conversation_sessions[session_id]) :
             conversation_sessions[session_id][k].id = id}

\* C17 (as claimed): every indexed memory of type conversation whose
\* metadata carries a session_id occurs exactly once in the session list
\* keyed by that session_id and in no other session list.
C17_ExactlyOneBucketEntry ==
    \A i \in 1..Len(memory_index) :
        (memory_index[i].type = "conversation" /\ Truthy(MetaSession(memory_index[i]))) =>
            /\ Cardinality(C17_Positions(MetaSession(memory_index[i]), memory_index[i].id)) = 1
            /\ \A s \in DOMAIN conversation_sessions \ {MetaSession(memory_index[i])} :
                  C17_Positions(s, memory_index[i].id) = {}

\* C17, second failure: the part of C17_ExactlyOneBucketEntry that a store()
\* without its session_id argument does not already break: no session list
\* holds a memory id twice.
C17_NoDuplicateEntry ==
    \A s \in DOMAIN conversation_sessions, id \in Ids :
        Cardinality(C17_Positions(s, id)) <= 1

\* C18 (as claimed): once delete_memory(id) returned True, the id is in
\* neither the index nor any session list, also after a restart that replays
\* the log, whatever other lines (updated records, malformed lines) it holds.
C18_DeletionDurable ==
    \A id \in deleted :
        /\ id \notin IndexIds(memory_index)
        /\ \A s \in DOMAIN conversation_sessions :
              \A k \in 1..Len(conversation_sessions[s]) :
                  conversation_sessions[s][k].id # id

\* the entries of a session list that belong to other ids, in order
C19_Others(list, id) == SelectSeq(list, LAMBDA e : e.id # id)

C20_TurnsStored ==
    /\ ret'.user_id # ret'.assistant_id
    /\ {ret'.user_id, ret'.assistant_id} \subseteq IndexIds(memory_index')
    /\ ret'.assistant_id \notin IndexIds(memory_index)
    /\ IndexIds(memory_index') \ IndexIds(memory_index)
          \subseteq {ret'.user_id, ret'.assistant_id}
    /\ Lookup(memory_index', ret'.user_id).type = "conversation"
    /\ Lookup(memory_index', ret'.assistant_id).type = "conversation"
    /\ Lookup(memory_index', ret'.user_id).metadata.speaker = "user"
    /\ Lookup(memory_index', ret'.assistant_id).metadata.speaker = "assistant"

\* both turns are in the session list of the call's session_id, once each,
\* the user turn before the assistant turn
C20_TurnsRegistered ==
    /\ ret'.session_id \in DOMAIN conversation_sessions'
    /\ LET list == conversation_sessions'[ret'.session_id]
           at(id) == {k \in 1..Len(list) : list[k].id = id}
       IN /\ Cardinality(at(ret'.user_id)) = 1
          /\ Cardinality(at(ret'.assistant_id)) = 1
          /\ \A i \in at(ret'.user_id), j \in at(ret'.assistant_id) : i < j

C21_Identity(memory) ==
    [id |-> memory.id, type |-> memory.type, content |-> memory.content,
     timestamp |-> memory.timestamp]

\* the write-once part of every copy of a memory the engine holds: the
\* indexed objects, the objects only a session list reaches, and the records
\* of the log
C21_Copies(index, sessions, lines) ==
    {C21_Identity(index[i]) : i \in 1..Len(index)}
    \cup UNION {{C21_Identity(EntryMemory(index, sessions[s][k])) :
                    k \in 1..Len(sessions[s])} : s \in DOMAIN sessions}
    \cup {C21_Identity(DeserializeMemory(LoadedLines(lines)[i])) :
             i \in 1..Len(LoadedLines(lines))}

\* C21: a memory's id, type, content and creation timestamp never change:
\* in every step (a store of another memory, a search, a history read, an
\* importance update, a sweep, a restart that replays the log) every copy of
\* a memory after the step agrees in these four fields with every copy of it
\* before the step and with every other copy after it.
C21_IdentityWriteOnce ==
    [][LET before == C21_Copies(memory_index, conversation_sessions, log)
           after == C21_Copies(memory_index', conversation_sessions', log')
       IN /\ Cardinality({b.id : b \in after}) = Cardinality(after)
          /\ \A b \in after : \A a \in before : a.id = b.id => a = b]_vars

\* C21 witness: after a restart the index holds a memory created before
\* the present time that was read through the history and then re-scored
\* (its access_count went to the log), next to a memory stored since.
C21_Witness ==
    /\ ret.op = "restart"
    /\ Len(memory_index) = 2
    /\ \E i \in 1..Len(memory_index) :
          /\ memory_index[i].timestamp < now
          /\ memory_index[i].importance = 5
          /\ memory_index[i].access_count > 0

\* C22 (as claimed): a memory's access_count never decreases, in any step
\* (store, search, history read, importance update, sweep, restart) that
\* leaves the memory in the index.
C22_AccessCountMonotone ==
    [][\A i \in 1..Len(memory_index), j \in 1..Len(memory_index') :
          memory_index[i].id = memory_index'[j].id =>
              memory_index'[j].access_count >= memory_index[i].access_count]_vars

\* a Memory object after one read-through at the current time
C23_ReadOnce(memory) ==
    [memory EXCEPT !.access_count = @ + 1, !.last_accessed = now]

\* C23: get_conversation_history(s, limit) raises access_count by exactly
\* one and sets last_accessed to the current time for each memory it
\* returns, and leaves every other memory as it is: in the index, a memory
\* whose id is in the result is read once and no other memory changes; in
\* the session lists, the objects only the list reaches are read once when
\* their entry is returned (one of the last len(result) entries of s) and
\* no other entry changes.
C23_HistoryReadsReturnedOnce ==
    [][ret'.op = "history" =>
          /\ Len(memory_index') = Len(memory_index)
          /\ \A i \in 1..Len(memory_index) :
                memory_index'[i] =
                    IF memory_index[i].id \in SeqRange(ret'.result)
                    THEN C23_ReadOnce(memory_index[i])
                    ELSE memory_index[i]
          /\ DOMAIN conversation_sessions' = DOMAIN conversation_sessions
          /\ \A s \in DOMAIN conversation_sessions :
                /\ Len(conversation_sessions'[s]) = Len(conversation_sessions[s])
                /\ \A k \in 1..Len(conversation_sessions[s]) :
                      LET e == conversation_sessions[s][k]
                          read == /\ s = ret'.session_id
                                  /\ k > Len(conversation_sessions[s]) - Len(ret'.result)
                      IN conversation_sessions'[s][k] =
                            IF read /\ e.own
                            THEN OwnEntry(C23_ReadOnce(e.mem))
                            ELSE e]_vars

\* C23 witness: a history read has returned one memory, last accessed
\* before the present time until then, out of a session list that holds a
\* second memory and, since a restart, a stale object of a re-scored one.
C23_Witness ==
    /\ ret.op = "history"
    /\ Len(ret.result) = 1
    /\ Len(memory_index) = 2
    /\ Lookup(memory_index, ret.result[1]).timestamp < now
    /\ \E k \in 1..Len(conversation_sessions[ret.session_id]) :
          conversation_sessions[ret.session_id][k].own

\* C24 (as claimed): every memory search() returns has had its access_count
\* raised and its last_accessed set to the current time by that call.
C24_SearchReadsReturned ==
    [][ret'.op = "search" =>
          \A k \in 1..Len(ret'.results) :
              LET id == ret'.results[k].id
              IN /\ Lookup(memory_index', id).access_count >
                       Lookup(memory_index, id).access_count
                 /\ Lookup(memory_index', id).last_accessed = now]_vars

\* what the claim asks of the result of one get_recent_context() call, except
\* for its size: every entry is an indexed memory created within the window
\* and, when a session is given, of that session; the entries are distinct
\* and newest first; nothing stored has changed
C25_RecentInWindowNewestFirst ==
    /\ \A k \in 1..Len(ret'.result) :
          /\ InIndex(memory_index, ret'.result[k])
          /\ Lookup(memory_index, ret'.result[k]).timestamp >= now - ret'.time_window
          /\ ret'.session_id # NoSession =>
                MetaSession(Lookup(memory_index, ret'.result[k])) = ret'.session_id
    /\ \A j, k \in 1..Len(ret'.result) :
          j < k => /\ ret'.result[j] # ret'.result[k]
                   /\ Lookup(memory_index, ret'.result[j]).timestamp >=
                         Lookup(memory_index, ret'.result[k]).timestamp
    /\ UNCHANGED <<memory_index, conversation_sessions, log, collections>>

\* the memories a get_recent_context() call may return: in the window, of
\* the session when one is given, of whatever type
C25_Eligible ==
    {i \in 1..Len(memory_index) :
        /\ memory_index[i].timestamp >= now - ret'.time_window
        /\ (ret'.session_id # NoSession =>
               MetaSession(memory_index[i]) = ret'.session_id)}

\* C25 (as claimed): get_recent_context(session, limit, window) returns at
\* most limit memories (none for a limit below zero), each created at or
\* after now - window and, when a session is given, with that session_id in
\* its metadata, newest first; no type is left out (when limit allows, every
\* such memory is returned); and no stored memory changes.
C25_RecentContext ==
    [][ret'.op = "recent" =>
          /\ Len(ret'.result) <= Max2(ret'.limit, 0)
          /\ C25_RecentInWindowNewestFirst
          /\ Len(ret'.result) >= Min2(ret'.limit, Cardinality(C25_Eligible))]_vars

\* C25, the part that holds: the same for every limit that is not negative
C25_RecentContextFromZero ==
    [][(ret'.op = "recent" /\ ret'.limit >= 0) =>
          /\ Len(ret'.result) <= ret'.limit
          /\ C25_RecentInWindowNewestFirst
          /\ Len(ret'.result) >= Min2(ret'.limit, Cardinality(C25_Eligible))]_vars

\* C26 (as claimed): the log is written before the index: in every state,
\* every memory the index holds has a record in memories.jsonl.
C26_IndexedIsLogged ==
    \A i \in 1..Len(memory_index) :
        \E k \in 1..Len(log) :
            ~Malformed(log[k]) /\ log[k].id = memory_index[i].id

\* what C27 compares of a memory
C27_Kept(memory) ==
    [id |-> memory.id, content |-> memory.content, type |-> memory.type,
     importance |-> memory.importance]

\* C27: the index is a cache of the log: after any sequence of store(),
\* update_memory_importance() and delete_memory() calls whose disk writes
\* succeeded (and history reads between them), a restart rebuilds an index
\* with exactly the ids that were in it before the restart, each with the
\* same content, the same type and the importance last set.
C27_RestartRebuildsIndex ==
    [][ret'.op = "restart" =>
          {C27_Kept(memory_index'[i]) : i \in 1..Len(memory_index')} =
          {C27_Kept(memory_index[i]) : i \in 1..Len(memory_index)}]_vars

\* C27 witness: a restart has rebuilt an index that holds a re-scored memory
\* (two lines in the log, the later one with the new importance) after
\* another memory was deleted.
C27_Witness ==
    /\ ret.op = "restart"
    /\ deleted # {}
    /\ \E i \in 1..Len(memory_index) :
          /\ memory_index[i].importance = 5
          /\ \E j, k \in 1..Len(log) :
                /\ j < k
                /\ log[j].id = memory_index[i].id
                /\ log[k].id = memory_index[i].id
                /\ log[j].importance # log[k].importance

\* the ids get_conversation_history(s, limit) returns for a limit that
\* covers the whole list
C28_HistoryIds(sessions, s) ==
    IF s \notin DOMAIN sessions THEN <<>>
    ELSE [k \in 1..Len(sessions[s]) |-> sessions[s][k].id]

\* C28 (as claimed): a restart reconstructs session membership: for every
\* session, the history right after the restart lists the same ids in the
\* same order as the history right before it.
C28_RestartKeepsHistories ==
    [][ret'.op = "restart" =>
          \A s \in DOMAIN conversation_sessions \cup DOMAIN conversation_sessions' :
              C28_HistoryIds(conversation_sessions', s) =
                  C28_HistoryIds(conversation_sessions, s)]_vars

\* the last record the log holds for an id
C29_LastRecord(id) ==
    log[CHOOSE k \in 1..Len(log) :
            /\ ~Malformed(log[k]) /\ log[k].id = id
            /\ \A j \in (k + 1)..Len(log) : Malformed(log[j]) \/ log[j].id # id]

C30_Lexical ==
    SearchFallback(memory_index, ret'.query, ret'.limit, ret'.memory_types,
                   ret'.min_relevance, ret'.session_id)

\* C30 (as claimed): when the embedding model and the vector database are
\* there and the vector query of a search() yields no result, the call
\* returns what the lexical scan finds.
C30_EmptyVectorFallsBack ==
    [][(/\ ret'.op = "search"
        /\ ret'.path = "vector"
        /\ SearchVectorDb(memory_index, collections, Encode(ret'.query), ret'.limit,
                          ret'.memory_types, ret'.min_relevance, ret'.session_id) = <<>>)
          => ret'.results = C30_Lexical]_vars


\* C31: every memory a search() returns passes the filters of the call, on
\* the vector path and on the lexical one: its type is one of memory_types
\* when the list is given, and the session_id of its metadata is the
\* session_id argument when one is given.
C31_ResultsPassFilters ==
    ret.op = "search" =>
        \A i \in 1..Len(ret.results) :
            /\ InIndex(memory_index, ret.results[i].id)
            /\ ret.memory_types # <<>> =>
                   Lookup(memory_index, ret.results[i].id).type
                       \in SeqRange(ret.memory_types)
            /\ Truthy(ret.session_id) =>
                   MetaSession(Lookup(memory_index, ret.results[i].id))
                       = ret.session_id

\* a vector search with both filters returned a memory while the collections
\* held a memory that carries no session
C31_Witness ==
    /\ ret.op = "search"
    /\ ret.path = "vector"
    /\ ret.memory_types = <<"factual">>
    /\ ret.session_id = "s1"
    /\ ret.results # <<>>
    /\ CollectionExists(collections, "factual")
    /\ \E k \in 1..Len(collections["factual"]) :
          collections["factual"][k].session_id = NoSession


\* the memory types a search() with the given filter asks the vector
\* database about
C32_TypesSearched(memory_types) ==
    IF memory_types # <<>> THEN memory_types ELSE MemoryTypeList

\* C32 (as claimed): when the query of one type's collection raises during a
\* vector search(), the call still returns, and for that type it returns the
\* matches of the lexical scan.
C32_FailingTypeFallsBack ==
    (ret.op = "search" /\ ret.path = "vector" /\ ret.limit > 0) =>
        \A k \in 1..Len(C32_TypesSearched(ret.memory_types)) :
            LET t == C32_TypesSearched(ret.memory_types)[k]
                lexical == SearchFallback(memory_index, ret.query, ret.limit, <<t>>,
                                          ret.min_relevance, ret.session_id)
            IN ~CollectionExists(collections, t) =>
                   \A i \in 1..Len(lexical) :
                       \E j \in 1..Len(ret.results) : ret.results[j].id = lexical[i].id


\* update_memory_importance, lines 349-353, as a function of the four stores
C33_UpdateInto(st, memory_id, importance, written) ==
    LET memory == [Lookup(st.index, memory_id) EXCEPT !.importance = importance]
    IN StoreState(IndexPut(st.index, memory), st.sessions, st.cols,
                  PersistMemory(st.lines, memory, written))

\* the stores after the call that returns in this step, had it run alone
\* and from start to end on the stores as they are before the step
C33_RunAlone ==
    CASE ret'.op = "store" ->
            {StoreInto(CurrentStore,
                       MakeMemory(ret'.id, ret'.type, ret'.content,
                                  MakeMetadata(m, ""), now, ret'.importance, 0, now,
                                  IF embedded THEN Encode(ret'.content)
                                  ELSE NoEmbedding),
                       ret'.session_id, added, written) :
                <<m, embedded, added, written>> \in
                    ConcurrentLoad.metas \X ConcurrentLoad.embed_ok
                    \X ConcurrentLoad.chroma_ok \X ConcurrentLoad.disk_ok}
      [] ret'.op = "update" ->
            IF ret'.ok
            THEN {C33_UpdateInto(CurrentStore, ret'.id, i, written) :
                     <<i, written>> \in
                         ConcurrentLoad.new_importances \X ConcurrentLoad.disk_ok}
            ELSE {CurrentStore}
      [] ret'.op = "delete" ->
            IF ret'.ok
            THEN {DeleteMemory(CurrentStore, ret'.id, removed) :
                     removed \in ConcurrentLoad.chroma_ok}
            ELSE {CurrentStore}
      [] ret'.op = "cleanup" ->
            {CleanupLoop(CurrentStore,
                         MemoriesToDelete(memory_index, ret'.max_age,
                                          ret'.min_importance),
                         removed, 0)[1] :
                removed \in ConcurrentLoad.chroma_ok}
      [] OTHER -> {CurrentStore}

\* C33: concurrent store(), update_memory_importance(), delete_memory() and
\* cleanup_old_memories() calls are serializable: in every interleaving at
\* the await in the embedder, a step in which no call returns leaves the
\* index, the session lists, the collections and the log as they are, and a
\* step in which a call returns changes them exactly as that call would,
\* run alone from start to end at that moment; so the stores are at every
\* moment those of the calls run one after the other in the order of return.
C33_Serializable ==
    [][StoreState(memory_index', conversation_sessions', collections', log')
          \in C33_RunAlone]_vars

\* two stores of different sessions were suspended together, the later one
\* returned first and was updated, and the earlier one has just returned
C33_Witness ==
    /\ ret.op = "store"
    /\ ret.id = 1
    /\ Len(memory_index) = 2
    /\ memory_index[1].id = 2
    /\ memory_index[1].importance = 5
    /\ DOMAIN conversation_sessions = {"s1", "s2"}


\* every id the index, a session list, a collection or the log holds
C34_StoredIds(index, sessions, cols, lines) ==
    IndexIds(index) \cup LoggedIds(lines)
    \cup UNION {{sessions[s][k].id : k \in 1..Len(sessions[s])} : s \in DOMAIN sessions}
    \cup UNION {{cols[t][k].id : k \in 1..Len(cols[t])} : t \in DOMAIN cols}

\* C34: cancelling a store() or a search() that is suspended at the await
\* leaves the index, the session lists, the collections and the log as if
\* the call had never started: the cancelling step changes none of them,
\* the id a cancelled store() drew is in none of them, and whatever they
\* hold was put there by a store() that returned.
C34_CancelLeavesNoTrace ==
    [][/\ ret'.op = "cancelled" =>
             /\ UNCHANGED <<memory_index, conversation_sessions, collections, log>>
             /\ ret'.call.op = "store" =>
                    ret'.call.id \notin
                        C34_StoredIds(memory_index', conversation_sessions',
                                      collections', log')
       /\ \A id \in C34_StoredIds(memory_index', conversation_sessions',
                                  collections', log') :
             \E k \in 1..Len(returned') : returned'[k].id = id]_vars

\* a store() has just been cancelled while a search() is suspended and the
\* index holds the memory of another store()
C34_Witness ==
    /\ ret.op = "cancelled"
    /\ ret.call.op = "store"
    /\ Len(memory_index) = 1
    /\ \E c \in pending : c.op = "search"


\* C35 (as claimed): once get_conversation_history() has returned a memory
\* at time t, no cleanup_old_memories(max_age, min_importance) called before
\* t + max_age removes it, whatever its importance and whatever happens in
\* between.  (last_read holds the latest such t of every memory.)
C35_ReadProtects ==
    [][ret'.op = "cleanup" =>
          \A m \in IndexIds(memory_index) \ IndexIds(memory_index') :
              m \in DOMAIN last_read => ~(now < last_read[m] + ret'.max_age)]_vars


\* C36: whatever stores are suspended and whatever importance updates and
\* history reads ran before it, every memory a cleanup_old_memories() call
\* removes passes the eviction test (not SYSTEM, last_accessed older than
\* max_age, importance below min_importance) in the state the call removes
\* it from.
C36_RemovedAreEvictable ==
    [][ret'.op = "cleanup" =>
          \A id \in IndexIds(memory_index) \ IndexIds(memory_index') :
              C5_Evictable(Lookup(memory_index, id), ret'.max_age,
                           ret'.min_importance)]_vars

\* a sweep has just removed a memory while a store() is suspended
C36_Witness ==
    /\ ret.op = "cleanup"
    /\ ret.count = 1
    /\ pending # {}


\* C37 (as claimed): with an embedding model installed and several
\* store_interaction() calls under way on one session, the two turns of an
\* interaction are adjacent in the session's list, the user turn first:
\* when a call returns, its assistant turn is the entry right after its
\* user turn.
C37_TurnsAdjacent ==
    ret.op = "interaction" =>
        LET list == conversation_sessions[ret.session_id]
        IN \E k \in 1..(Len(list) - 1) :
              /\ list[k].id = ret.user_id
              /\ list[k + 1].id = ret.assistant_id


\* C38: in every reachable state, every entry of every session list is a
\* CONVERSATION memory whose id the index holds (as a CONVERSATION memory).
C38_NoDanglingEntry ==
    \A s \in DOMAIN conversation_sessions :
        \A k \in 1..Len(conversation_sessions[s]) :
            LET e == conversation_sessions[s][k]
            IN /\ InIndex(memory_index, e.id)
               /\ Lookup(memory_index, e.id).type = "conversation"
               /\ EntryMemory(memory_index, e).type = "conversation"

\* after a delete and a restart a session list has entries again while the
\* index also holds a memory of another type stored with the same session
C38_Witness ==
    /\ ret.op = "restart"
    /\ deleted # {}
    /\ \E s \in DOMAIN conversation_sessions : conversation_sessions[s] # <<>>
    /\ \E i \in 1..Len(memory_index) :
          /\ memory_index[i].type = "factual"
          /\ MetaSession(memory_index[i]) = "s1"


\* C39: no search() result holds a memory that delete_memory() has deleted,
\* by id or in a sweep, on the vector path and on the lexical one, even when
\* the deletion from the vector database failed and the collection still
\* holds the vector.
C39_SearchSkipsDeleted ==
    ret.op = "search" =>
        \A i \in 1..Len(ret.results) : ret.results[i].id \notin deleted

\* a vector search has just returned a memory while a collection still
\* holds the vector of a deleted one
C39_Witness ==
    /\ ret.op = "search"
    /\ ret.path = "vector"
    /\ ret.results # <<>>
    /\ \E t \in DOMAIN collections : \E k \in 1..Len(collections[t]) :
          collections[t][k].id \in deleted

====
